---- MODULE Spec2Model ----
(***************************************************************************)
(* Semantic traceability engine of COVADEV: similarity computation, the    *)
(* two matchers, top-k ranking, the evaluation metrics and the BPMN        *)
(* structural precheck.                                                    *)
(*                                                                         *)
(* Nine specifications share the variables: Spec (compute_similarity, a    *)
(* matcher, top_k_matches), PrecheckSpec (precheck_bpmn_xml on a document), *)
(* RunSpec (run_analysis_for_project on the active BPMN of a project),     *)
(* EvalSpec (evaluate_traceability and the metrics), CodeSpec (code        *)
(* uploads and the code side of analyze_project), StoreSpec (two runs on   *)
(* the tables of one project), TraceSpec (the trace lists of the           *)
(* structural extractor), ScoreSpec (score_developers) and MonoSpec (the   *)
(* greedy matcher at two thresholds).                                      *)
(*                                                                         *)
(* Floats are modelled by integers: a similarity score is one of the       *)
(* ordered values of Scores, 1 standing for 1.0 and -1 for -1.0.  Id lists *)
(* hold pairwise distinct ids (BPMN element ids and function uids are      *)
(* unique per document / extraction run).                                  *)
(***************************************************************************)
EXTENDS Integers, Sequences, FiniteSets, TLC

VARIABLES
    entry,        \* where the run started: "embeddings", "similarity" or "run"
    pc,           \* position of the analysis run
    task_embeddings, code_embeddings,   \* input of compute_similarity
    similarity,   \* the similarity dict {task_ids, code_ids, matrix}
    threshold,    \* the threshold handed to the matcher
    matching,     \* result of the matcher that ran (or NoResult)
    top_k,        \* result of top_k_matches (or NoResult)
    doc,          \* the BPMN document handed to precheck_bpmn_xml
    gate,         \* position inside precheck_bpmn_xml
    evaluated,    \* the gates precheck_bpmn_xml has evaluated, in order
    graph,        \* the graph extract_bpmn_graph returned (or NoResult)
    warnings,     \* the warnings list of precheck_bpmn_xml
    reachable,    \* the set the traversal of precheck_bpmn_xml has visited
    result,       \* the PrecheckResult returned (or NoResult)
    stage,        \* position of run_analysis_for_project / analyze_project
    run_status,   \* status of the AnalysisRun row
    bpmn_rows,    \* the project's BpmnTask rows
    match_rows,   \* the project's MatchResult rows
    eval_args,    \* arguments of evaluate_traceability (or NoResult)
    details,      \* its matched / missing / extra lists (or NoResult)
    counts,       \* tp, fn, fp and total_tasks handed to the metrics
    summary,      \* precision, recall, f1 and alignment as computed so far
    epc,          \* position inside evaluate_traceability
    code_root,    \* the functions of the extracted code folder (active snapshot)
    summarizer,   \* the summarization model: does it load, its output per prompt
    artifacts,    \* the project's CodeArtifact rows
    res_all,      \* what summarize_many returned to analyze_project (or NoResult)
    code_items,   \* the code_items list of analyze_project
    cpc,          \* position of the code side of analyze_project
    project,      \* the project argument of analyze_project ("None": stateless call)
    uploads,      \* number of code uploads the project has received
    runs,         \* the concurrent calls of run_analysis_for_project, one record each
    visitor,      \* the lists _Visitor collected for one function, in visiting order
    built,        \* the record _build_one returned (or NoResult)
    score_args,   \* arguments of score_developers (or NoResult)
    scores,       \* what score_developers returned (or NoResult)
    threshold_hi, \* a second threshold, not below threshold
    matching_hi   \* result of greedy_one_to_one_match at threshold_hi (or NoResult)

vars == <<entry, pc, task_embeddings, code_embeddings, similarity, threshold,
          matching, top_k, doc, gate, evaluated, graph, warnings, reachable, result,
          stage, run_status, bpmn_rows, match_rows,
          eval_args, details, counts, summary, epc,
          code_root, summarizer, artifacts, res_all, code_items, cpc, project,
          uploads, runs, visitor, built, score_args, scores, threshold_hi,
          matching_hi>>

matchVars == <<entry, pc, task_embeddings, code_embeddings, similarity, threshold,
               matching, top_k>>

precheckVars == <<doc, gate, evaluated, graph, warnings, reachable, result>>

runVars == <<stage, run_status, bpmn_rows, match_rows>>

evalVars == <<eval_args, details, counts, summary, epc>>

codeVars == <<code_root, summarizer, artifacts, res_all, code_items, cpc, project,
             uploads>>

storeVars == <<runs>>

traceVars == <<visitor, built>>

scoreVars == <<score_args, scores>>

monoVars == <<threshold_hi, matching_hi>>

\* the variables of the subsystems modelled after the evaluation
laterVars == <<codeVars, storeVars, traceVars, scoreVars, monoVars>>

-----------------------------------------------------------------------------
(* Bounds of the model *)

MaxTasks == 3

MaxCode == 3

MaxCells == 6

MaxEmb == 3

Scores == {-1, 0, 1}

Thresholds == {-1, 0, 1, 2}

KValues == -1 .. (MaxCode + 1)

NoResult == [status |-> "none"]

Raised == [status |-> "raised"]

-----------------------------------------------------------------------------
(* Helpers *)

Range(s) == {s[x] : x \in DOMAIN s}

Min(a, b) == IF a <= b THEN a ELSE b

Max(a, b) == IF a >= b THEN a ELSE b

Front(s) == SubSeq(s, 1, Len(s) - 1)

Last(s) == s[Len(s)]

\* faulty variant: the [::-1] forgotten
ReverseForgotten(s) == s

Reverse(s) == [x \in 1..Len(s) |-> s[Len(s) + 1 - x]]

TaskIdOf(i) == <<"T", i>>

CodeIdOf(j) == <<"c", j>>

TaskIds(n) == [i \in 1..n |-> TaskIdOf(i)]

CodeIds(m) == [j \in 1..m |-> CodeIdOf(j)]

\* a rows x cols matrix filled with v (numpy.zeros for v = 0)
Filled(rows, cols, v) == [i \in 1..rows |-> [j \in 1..cols |-> v]]

-----------------------------------------------------------------------------
(* numpy.asarray on a list of lists *)

IsRagged(matrix) ==
    \E a, b \in DOMAIN matrix : Len(matrix[a]) # Len(matrix[b])

NRows(matrix) == Len(matrix)

NCols(matrix) == IF Len(matrix) = 0 THEN 0 ELSE Len(matrix[1])

Size(matrix) == NRows(matrix) * NCols(matrix)

-----------------------------------------------------------------------------
(* similarity.py *)

Dot(u, v) ==
    LET RECURSIVE Sum(_)
        Sum(d) == IF d = 0 THEN 0 ELSE u[d] * v[d] + Sum(d - 1)
    IN Sum(Len(u))

Clip(x, lo, hi) == IF x < lo THEN lo ELSE IF x > hi THEN hi ELSE x

\* _to_matrix: numpy refuses a ragged list of vectors, and an empty list is
\* not 2-D
ToMatrixRaises(vectors) == vectors = <<>> \/ IsRagged(vectors)

\* cosine_similarity_matrix: [raised, S]
cosine_similarity_matrix(task_vectors, code_vectors) ==
    IF ToMatrixRaises(task_vectors) \/ ToMatrixRaises(code_vectors)
    THEN [raised |-> TRUE, S |-> <<>>]
    ELSE IF NCols(task_vectors) # NCols(code_vectors)
    THEN [raised |-> TRUE, S |-> <<>>]
    ELSE [raised |-> FALSE,
          S |-> [i \in 1..Len(task_vectors) |->
                  [j \in 1..Len(code_vectors) |->
                     Clip(Dot(task_vectors[i], code_vectors[j]), -1, 1)]]]

\* faulty variant: compute_similarity without its guard for empty inputs
compute_similarity_unguarded(t_emb, c_emb) ==
    LET task_ids == [i \in 1..Len(t_emb) |-> t_emb[i].id]
        code_ids == [j \in 1..Len(c_emb) |-> c_emb[j].id]
        task_vecs == [i \in 1..Len(t_emb) |-> t_emb[i].vector]
        code_vecs == [j \in 1..Len(c_emb) |-> c_emb[j].vector]
        cs == cosine_similarity_matrix(task_vecs, code_vecs)
    IN IF cs.raised THEN Raised
       ELSE [status |-> "ok", task_ids |-> task_ids, code_ids |-> code_ids,
             matrix |-> cs.S]

\* compute_similarity: the similarity dict, or Raised
compute_similarity(t_emb, c_emb) ==
    LET task_ids == [i \in 1..Len(t_emb) |-> t_emb[i].id]
        code_ids == [j \in 1..Len(c_emb) |-> c_emb[j].id]
        task_vecs == [i \in 1..Len(t_emb) |-> t_emb[i].vector]
        code_vecs == [j \in 1..Len(c_emb) |-> c_emb[j].vector]
        cs == cosine_similarity_matrix(task_vecs, code_vecs)
    IN IF task_vecs = <<>> \/ code_vecs = <<>>
       THEN [status |-> "ok", task_ids |-> task_ids, code_ids |-> code_ids,
             matrix |-> <<>>]
       ELSE IF cs.raised THEN Raised
       ELSE [status |-> "ok", task_ids |-> task_ids, code_ids |-> code_ids,
             matrix |-> cs.S]

\* faulty variant: seq[:k], the first k of the ascending order
SliceFirst(seq, k) == SubSeq(seq, 1, Min(k, Len(seq)))

\* Python's seq[-k:] : k = 0 gives seq[0:], the whole sequence
SliceLast(seq, k) ==
    IF k = 0 THEN seq
    ELSE SubSeq(seq, Max(Len(seq) - k, 0) + 1, Len(seq))

\* numpy.argsort(row): every index order that sorts row ascending; the default
\* kind ("quicksort") leaves the order of equal elements unspecified
IsAscending(row, p) ==
    \A a, b \in DOMAIN p : a < b => row[p[a]] <= row[p[b]]

Permutations1(m) ==
    {p \in [1..m -> 1..m] : \A a, b \in 1..m : a # b => p[a] # p[b]}

argsort(row) == {p \in Permutations1(Len(row)) : IsAscending(row, p)}

k_eff(k, M) == Max(0, Min(k, M))

\* one row of top_k_matches under the index order p that argsort returned
TopKRow(code_ids, row, p, k) ==
    LET idx == Reverse(SliceLast(p, k_eff(k, Len(row))))
    IN [x \in 1..Len(idx) |-> [code_id |-> code_ids[idx[x]], score |-> row[idx[x]]]]

\* the index orders argsort may return for rows 1..n of the matrix
RECURSIVE ArgsortChoices(_, _)
ArgsortChoices(matrix, n) ==
    IF n = 0 THEN {<<>>}
    ELSE {Append(c, p) : c \in ArgsortChoices(matrix, n - 1), p \in argsort(matrix[n])}

\* top_k_matches under the index orders ps, one per row: a dict task_id -> list
top_k_matches(sim, k, ps) ==
    LET N == NRows(sim.matrix)
        M == NCols(sim.matrix)
        idx(i) == Reverse(SliceLast(ps[i], k_eff(k, M)))
    IN IF sim.matrix = <<>>
       THEN [status |-> "ok", k |-> k,
             results |-> [tid \in Range(sim.task_ids) |-> <<>>]]
       ELSE IF IsRagged(sim.matrix) THEN Raised
       ELSE IF \/ N > Len(sim.task_ids)
               \/ \E i \in 1..N : \E x \in DOMAIN idx(i) : idx(i)[x] > Len(sim.code_ids)
       THEN Raised
       ELSE [status |-> "ok", k |-> k,
             results |->
               [tid \in {sim.task_ids[i] : i \in 1..N} |->
                  LET i == CHOOSE x \in 1..N : sim.task_ids[x] = tid
                  IN TopKRow(sim.code_ids, sim.matrix[i], ps[i], k)]]

-----------------------------------------------------------------------------
(* matcher.py *)

\* _validate_similarity: [raised, task_ids, code_ids, S, n_tasks, n_code]
validate_similarity(sim) ==
    LET N == Len(sim.task_ids)
        M == Len(sim.code_ids)
        ok(S) == [raised |-> FALSE, task_ids |-> sim.task_ids,
                  code_ids |-> sim.code_ids, S |-> S, n_tasks |-> N, n_code |-> M]
        bad == [raised |-> TRUE, task_ids |-> sim.task_ids,
                code_ids |-> sim.code_ids, S |-> <<>>, n_tasks |-> 0, n_code |-> 0]
    IN IF IsRagged(sim.matrix) THEN bad
       ELSE IF Size(sim.matrix) = 0 THEN ok(Filled(N, M, 0))
       ELSE IF NRows(sim.matrix) # N \/ NCols(sim.matrix) # M THEN bad
       ELSE ok(sim.matrix)

\* faulty variant: a pair whose score equals the threshold is no candidate
CandidatesStrict(S, n_tasks, n_code, thr) ==
    LET all == [p \in 1..(n_tasks * n_code) |->
                  LET i == ((p - 1) \div n_code) + 1
                      j == ((p - 1) % n_code) + 1
                  IN [score |-> S[i][j], i |-> i, j |-> j]]
    IN SelectSeq(all, LAMBDA c : c.score > thr)

\* step 1 of greedy_one_to_one_match: the pairs with score >= thr, row-major
Candidates(S, n_tasks, n_code, thr) ==
    LET all == [p \in 1..(n_tasks * n_code) |->
                  LET i == ((p - 1) \div n_code) + 1
                      j == ((p - 1) % n_code) + 1
                  IN [score |-> S[i][j], i |-> i, j |-> j]]
    IN SelectSeq(all, LAMBDA c : c.score >= thr)

\* faulty variant: a sort that puts a later pair before the earlier pairs of its score
InsertDescBeforeEqual(c, sorted) ==
    LET before == {x \in 1..Len(sorted) : sorted[x].score > c.score}
        n == Cardinality(before)
    IN SubSeq(sorted, 1, n) \o <<c>> \o SubSeq(sorted, n + 1, Len(sorted))

\* list.sort(key=score, reverse=True): stable, equal scores keep their order
InsertDesc(c, sorted) ==
    LET before == {x \in 1..Len(sorted) : sorted[x].score >= c.score}
        n == Cardinality(before)
    IN SubSeq(sorted, 1, n) \o <<c>> \o SubSeq(sorted, n + 1, Len(sorted))

\* faulty variant: the candidates are left in row-major order
Unsorted(cands) == cands

RECURSIVE SortDesc(_)
SortDesc(cands) ==
    IF cands = <<>> THEN <<>>
    ELSE InsertDesc(Last(cands), SortDesc(Front(cands)))

\* faulty variant: the assigned_code test dropped
RECURSIVE GreedyAssignNoCodeCheck(_, _, _)
GreedyAssignNoCodeCheck(cands, x, acc) ==
    IF x > Len(cands) THEN acc
    ELSE LET c == cands[x]
         IN IF c.i \in acc.assigned_tasks
            THEN GreedyAssignNoCodeCheck(cands, x + 1, acc)
            ELSE GreedyAssignNoCodeCheck(cands, x + 1,
                   [assigned_tasks |-> acc.assigned_tasks \cup {c.i},
                    assigned_code |-> acc.assigned_code \cup {c.j},
                    matches |-> Append(acc.matches, c)])

\* faulty variant: assigned_code never filled
RECURSIVE GreedyAssignNoCodeMark(_, _, _)
GreedyAssignNoCodeMark(cands, x, acc) ==
    IF x > Len(cands) THEN acc
    ELSE LET c == cands[x]
         IN IF c.i \in acc.assigned_tasks \/ c.j \in acc.assigned_code
            THEN GreedyAssignNoCodeMark(cands, x + 1, acc)
            ELSE GreedyAssignNoCodeMark(cands, x + 1,
                   [assigned_tasks |-> acc.assigned_tasks \cup {c.i},
                    assigned_code |-> acc.assigned_code,
                    matches |-> Append(acc.matches, c)])

\* step 3 of greedy_one_to_one_match: [assigned_tasks, assigned_code, matches]
RECURSIVE GreedyAssign(_, _, _)
GreedyAssign(cands, x, acc) ==
    IF x > Len(cands) THEN acc
    ELSE LET c == cands[x]
         IN IF c.i \in acc.assigned_tasks \/ c.j \in acc.assigned_code
            THEN GreedyAssign(cands, x + 1, acc)
            ELSE GreedyAssign(cands, x + 1,
                   [assigned_tasks |-> acc.assigned_tasks \cup {c.i},
                    assigned_code |-> acc.assigned_code \cup {c.j},
                    matches |-> Append(acc.matches, c)])

MatchPair(v, c) ==
    [task_id |-> v.task_ids[c.i], code_id |-> v.code_ids[c.j], score |-> c.score]

greedy_one_to_one_match(sim, thr) ==
    LET v == validate_similarity(sim)
        candidates == SortDesc(Candidates(v.S, v.n_tasks, v.n_code, thr))
        g == GreedyAssign(candidates, 1,
               [assigned_tasks |-> {}, assigned_code |-> {}, matches |-> <<>>])
        tasks == [i \in 1..v.n_tasks |-> i]
        codes == [j \in 1..v.n_code |-> j]
        missing_i == SelectSeq(tasks, LAMBDA i : i \notin g.assigned_tasks)
        extra_j == SelectSeq(codes, LAMBDA j : j \notin g.assigned_code)
    IN IF v.raised THEN Raised
       ELSE [status |-> "ok",
             meta |-> [threshold |-> thr, strategy |-> "greedy_one_to_one"],
             matched |-> [x \in 1..Len(g.matches) |-> MatchPair(v, g.matches[x])],
             missing |-> [x \in 1..Len(missing_i) |-> v.task_ids[missing_i[x]]],
             extra |-> [x \in 1..Len(extra_j) |-> v.code_ids[extra_j[x]]]]

\* faulty variant: the last index holding the maximum
argmaxLast(row) ==
    CHOOSE j \in 1..Len(row) :
        /\ \A j2 \in 1..Len(row) : row[j2] <= row[j]
        /\ \A j2 \in (j + 1)..Len(row) : row[j2] < row[j]

\* numpy.argmax(row): the first index holding the maximum
argmax(row) ==
    CHOOSE j \in 1..Len(row) :
        /\ \A j2 \in 1..Len(row) : row[j2] <= row[j]
        /\ \A j2 \in 1..(j - 1) : row[j2] < row[j]

\* the loop of best_per_task_match over tasks 1..i
RECURSIVE BestLoop(_, _, _)
BestLoop(v, thr, i) ==
    IF i = 0 THEN <<>>
    ELSE LET prev == BestLoop(v, thr, i - 1)
         IN IF v.n_code = 0 THEN prev
            ELSE LET j == argmax(v.S[i])
                     score == v.S[i][j]
                 IN IF score >= thr
                    THEN Append(prev, MatchPair(v, [i |-> i, j |-> j, score |-> score]))
                    ELSE prev

best_per_task_match(sim, thr) ==
    LET v == validate_similarity(sim)
        matches == BestLoop(v, thr, v.n_tasks)
        matched_task_ids == {matches[x].task_id : x \in DOMAIN matches}
        used_code_ids == {matches[x].code_id : x \in DOMAIN matches}
    IN IF v.raised THEN Raised
       ELSE [status |-> "ok",
             meta |-> [threshold |-> thr, strategy |-> "best_per_task_many_to_one"],
             matched |-> matches,
             missing |-> SelectSeq(v.task_ids, LAMBDA tid : tid \notin matched_task_ids),
             extra |-> SelectSeq(v.code_ids, LAMBDA cid : cid \notin used_code_ids)]

-----------------------------------------------------------------------------
(* metrics.py: a float is the pair <<numerator, denominator>>; a pair with   *)
(* denominator 0 is no float, it stands for the ZeroDivisionError           *)

\* faulty variant: the division without its guard
safe_div_unguarded(n, d) == <<n, d>>

safe_div(n, d) == IF d = 0 THEN <<0, 1>> ELSE <<n, d>>

precision(tp, fp) == safe_div(tp, tp + fp)

recall(tp, fn) == safe_div(tp, tp + fn)

alignment_pct(matched, total_tasks) ==
    IF total_tasks = 0 THEN <<0, 1>> ELSE <<matched * 100, total_tasks>>

\* f1_score on p = pn/pd and r = rn/rd: p + r = (pn*rd + rn*pd)/(pd*rd)
f1_score(p, r) ==
    IF p[1] * r[2] + r[1] * p[2] = 0 THEN <<0, 1>>
    ELSE <<2 * p[1] * r[1], p[1] * r[2] + r[1] * p[2]>>

IsZero(q) == q[1] = 0

-----------------------------------------------------------------------------
(* metrics/evaluation.py: evaluate_traceability *)

\* the keys of a dict built from a list of ids: empty ids skipped, every id
\* once, in the order of first insertion
RECURSIVE DictKeys(_, _)
DictKeys(ids, n) ==
    IF n = 0 THEN <<>>
    ELSE LET prev == DictKeys(ids, n - 1)
         IN IF ids[n] = "" \/ ids[n] \in Range(prev) THEN prev
            ELSE Append(prev, ids[n])

TasksById(args) ==
    DictKeys([x \in DOMAIN args.bpmn_tasks |-> args.bpmn_tasks[x].taskId],
             Len(args.bpmn_tasks))

CodeById(args) ==
    DictKeys([x \in DOMAIN args.code_items |-> args.code_items[x].codeId],
             Len(args.code_items))

\* by_task[tid] for a non-empty tid
ByTask(args, tid) == SelectSeq(args.matches, LAMBDA m : m.taskId = tid)

\* max(candidates, key = similarity): the first candidate of maximal similarity
BestCandidate(cands) ==
    cands[CHOOSE x \in DOMAIN cands :
            /\ \A y \in DOMAIN cands : cands[y].similarity <= cands[x].similarity
            /\ \A y \in 1..(x - 1) : cands[y].similarity < cands[x].similarity]

\* faulty variant: the threshold itself rejected
AcceptsStrict(best_score, thr) == best_score > thr

Accepts(best_score, thr) == best_score >= thr

\* the loop over tasks_by_id, for its first n keys
RECURSIVE ClassifyLoop(_, _, _)
ClassifyLoop(args, keys, n) ==
    IF n = 0 THEN [matched |-> <<>>, missing |-> <<>>]
    ELSE LET prev == ClassifyLoop(args, keys, n - 1)
             tid == keys[n]
             candidates == ByTask(args, tid)
         IN IF candidates = <<>>
            THEN [prev EXCEPT !.missing =
                    Append(@, [taskId |-> tid, reason |-> "no candidates"])]
            ELSE LET best == BestCandidate(candidates)
                 IN IF Accepts(best.similarity, args.threshold)
                    THEN [prev EXCEPT !.matched =
                            Append(@, [taskId |-> tid, codeId |-> best.codeId,
                                       similarity |-> best.similarity])]
                    ELSE [prev EXCEPT !.missing =
                            Append(@, [taskId |-> tid,
                                       reason |-> "best below threshold"])]

\* the details of evaluate_traceability
Classification(args) ==
    LET keys == TasksById(args)
        done == ClassifyLoop(args, keys, Len(keys))
        used_code_ids == {done.matched[x].codeId : x \in DOMAIN done.matched}
        unused == SelectSeq(CodeById(args), LAMBDA cid : cid \notin used_code_ids)
    IN [status |-> "ok",
        matched |-> done.matched,
        missing |-> done.missing,
        extra |-> [x \in DOMAIN unused |->
                     [codeId |-> unused[x], reason |-> "unused by best matches"]]]

\* evaluate_traceability, the summary: TP = matched, FN = missing, FP = extra
summary_metrics(matched_count, missing_count, extra_count, total_tasks) ==
    [precision |-> precision(matched_count, extra_count),
     recall |-> recall(matched_count, missing_count),
     alignment |-> alignment_pct(matched_count, total_tasks)]

-----------------------------------------------------------------------------
(* bpmn/parser.py: a document is its well-formedness and its elements in    *)
(* document order, each with its local tag and its stripped attributes      *)

MaxElems == 5

TASK_TAGS == {"task", "userTask", "serviceTask", "scriptTask", "manualTask",
              "businessRuleTask", "sendTask", "receiveTask", "callActivity"}

EVENT_TAGS == {"startEvent", "endEvent"}

GATEWAY_TAGS == {"exclusiveGateway", "parallelGateway", "inclusiveGateway",
                 "eventBasedGateway", "complexGateway"}

FLOW_TAGS == {"sequenceFlow"}

Element(tag, id, name, src, tgt) ==
    [tag |-> tag, id |-> id, name |-> name, sourceRef |-> src, targetRef |-> tgt]

ProcessPool ==
    { Element("process", "P1", "Order", "", ""),
      Element("process", "", "Draft", "", "") }

NodePool ==
    { Element("task", "a", "Take Order", "", ""),
      Element("serviceTask", "b", "Ship", "", ""),
      Element("userTask", "", "Pay", "", ""),
      Element("startEvent", "s", "", "", ""),
      Element("endEvent", "e", "", "", ""),
      Element("exclusiveGateway", "g", "", "", "") }

\* f1 enters the task, f4 closes a cycle through the start event, f5 and f6
\* form a cycle of two tasks; f2 dangles, f3 has no targetRef, the last one
\* has no id and dangles
FlowPool ==
    { Element("sequenceFlow", "f1", "", "s", "a"),
      Element("sequenceFlow", "f4", "", "a", "s"),
      Element("sequenceFlow", "f5", "", "a", "b"),
      Element("sequenceFlow", "f6", "", "b", "a"),
      Element("sequenceFlow", "f2", "", "a", "z"),
      Element("sequenceFlow", "f3", "", "a", ""),
      Element("sequenceFlow", "", "", "s", "z") }

ElementPool == ProcessPool \cup NodePool \cup FlowPool

\* the documents handed to precheck_bpmn_xml: bytes that do not parse, or up
\* to MaxElems elements of the pool: the process elements, the nodes and the
\* flows, each kind in any order (the parser reads each kind into a list of
\* its own, so the interleaving of the kinds is not observable)
IsDocUpTo(d, max) ==
    \/ d = [wellformed |-> FALSE, elems |-> <<>>]
    \/ \E p, n, f \in 0..max :
          /\ p + n + f \in 1..max
          /\ \E ps \in [1..p -> ProcessPool] :
               \E ns \in [1..n -> NodePool] :
                 \E fs \in [1..f -> FlowPool] :
                   d = [wellformed |-> TRUE, elems |-> ps \o ns \o fs]

IsDoc(d) == IsDocUpTo(d, MaxElems)

\* the process meta of extract_bpmn_graph after the first n elements
RECURSIVE ProcessMeta(_, _)
ProcessMeta(elems, n) ==
    IF n = 0 THEN [id |-> "", name |-> ""]
    ELSE LET prev == ProcessMeta(elems, n - 1)
             el == elems[n]
         IN IF el.tag = "process" /\ prev.id = ""
            THEN [id |-> el.id, name |-> el.name]
            ELSE prev

Node(el) == [id |-> el.id, name |-> el.name, type |-> el.tag]

Nodes(elems, tags) ==
    LET kept == SelectSeq(elems, LAMBDA el : el.tag \in tags /\ el.id # "")
    IN [x \in 1..Len(kept) |-> Node(kept[x])]

Flows(elems) ==
    LET kept == SelectSeq(elems, LAMBDA el :
                    /\ el.tag \in FLOW_TAGS
                    /\ el.id # "" /\ el.sourceRef # "" /\ el.targetRef # "")
    IN [x \in 1..Len(kept) |->
          [id |-> kept[x].id, name |-> kept[x].name, source |-> kept[x].sourceRef,
           target |-> kept[x].targetRef, type |-> kept[x].tag]]

\* extract_tasks: raises on malformed XML, else the tasks that have an id
extract_tasks(d) ==
    IF ~d.wellformed THEN Raised
    ELSE [status |-> "ok", tasks |-> Nodes(d.elems, TASK_TAGS)]

\* extract_bpmn_graph: raises on malformed XML, else the graph
extract_bpmn_graph(d) ==
    IF ~d.wellformed THEN Raised
    ELSE [status |-> "ok",
          process |-> ProcessMeta(d.elems, Len(d.elems)),
          tasks |-> Nodes(d.elems, TASK_TAGS),
          events |-> Nodes(d.elems, EVENT_TAGS),
          gateways |-> Nodes(d.elems, GATEWAY_TAGS),
          flows |-> Flows(d.elems)]

-----------------------------------------------------------------------------
(* bpmn/precheck.py *)

PrecheckResult(ok, errors, warns, process_name, task_count) ==
    [status |-> "returned", ok |-> ok, errors |-> errors, warnings |-> warns,
     process_name |-> process_name, task_count |-> task_count]

\* faulty variant: the parse error swallowed
XmlParsesAlways(d) == TRUE

\* gate 1: ET.fromstring
XmlParses(d) == d.wellformed

\* gate 2: the loop looking for a process element
HasProcess(d) == \E x \in DOMAIN d.elems : d.elems[x].tag = "process"

FirstProcessName(d) ==
    LET x == CHOOSE y \in DOMAIN d.elems :
                /\ d.elems[y].tag = "process"
                /\ \A z \in 1..(y - 1) : d.elems[z].tag # "process"
    IN d.elems[x].name

\* process_name after the graph was parsed
ProcessName(d) ==
    LET g == extract_bpmn_graph(d)
    IN IF g.process.name # "" THEN g.process.name ELSE FirstProcessName(d)

\* gate 5: ids of tasks + events + gateways
NodeIdsList(g) ==
    LET all_nodes == g.tasks \o g.events \o g.gateways
    IN [x \in 1..Len(all_nodes) |-> all_nodes[x].id]

Count(seq, v) == Cardinality({x \in DOMAIN seq : seq[x] = v})

Dupes(ids) == {v \in Range(ids) : Count(ids, v) > 1}

\* gate 6 (step 7): the flows whose source or target is no node id
BadFlows(g) ==
    LET node_ids == Range(NodeIdsList(g))
        bad == SelectSeq(g.flows, LAMBDA f :
                  \/ f.source = "" \/ f.target = ""
                  \/ f.source \notin node_ids \/ f.target \notin node_ids)
    IN [x \in 1..Len(bad) |-> bad[x].id]

EventIds(g, type) ==
    LET kept == SelectSeq(g.events, LAMBDA e : e.type = type /\ e.id # "")
    IN [x \in 1..Len(kept) |-> kept[x].id]

\* step 6: the start/end event warnings
StartEndWarnings(g) ==
    (IF EventIds(g, "startEvent") = <<>> THEN <<[kind |-> "No startEvent found"]>> ELSE <<>>)
    \o (IF EventIds(g, "endEvent") = <<>> THEN <<[kind |-> "No endEvent found"]>> ELSE <<>>)

\* faulty variant: the adjacency built from target to source
InEdges(g, nid) ==
    LET inc == SelectSeq(g.flows, LAMBDA f : f.target = nid)
    IN [x \in 1..Len(inc) |-> inc[x].source]

\* step 8: adjacency from the flows
OutEdges(g, nid) ==
    LET out == SelectSeq(g.flows, LAMBDA f : f.source = nid)
    IN [x \in 1..Len(out) |-> out[x].target]

InDeg(g, nid) == Cardinality({x \in DOMAIN g.flows : g.flows[x].target = nid})

\* step 10: the breadth-first traversal over the queue q
RECURSIVE Bfs(_, _, _)
Bfs(g, q, reached) ==
    IF q = <<>> THEN reached
    ELSE LET cur == Head(q)
         IN IF cur \in reached THEN Bfs(g, Tail(q), reached)
            ELSE LET seen == reached \cup {cur}
                     nxt == SelectSeq(OutEdges(g, cur), LAMBDA n : n \notin seen)
                 IN Bfs(g, Tail(q) \o nxt, seen)

RECURSIVE SetToSeq(_)
SetToSeq(S) ==
    IF S = {} THEN <<>>
    ELSE LET v == CHOOSE x \in S : TRUE IN <<v>> \o SetToSeq(S \ {v})

EntryNodes(g) ==
    IF EventIds(g, "startEvent") # <<>> THEN EventIds(g, "startEvent")
    ELSE SetToSeq({nid \in Range(NodeIdsList(g)) : InDeg(g, nid) = 0})

Reachable(g) == Bfs(g, EntryNodes(g), {})

THIN_GATEWAYS == {"exclusiveGateway", "parallelGateway", "inclusiveGateway"}

RECURSIVE GatewayWarnings(_, _)
GatewayWarnings(g, n) ==
    IF n = 0 THEN <<>>
    ELSE LET gw == g.gateways[n]
             out_count == Len(OutEdges(g, gw.id))
         IN GatewayWarnings(g, n - 1)
            \o (IF gw.type \in THIN_GATEWAYS /\ out_count = 0
                THEN <<[kind |-> "Gateway has no outgoing sequenceFlow", id |-> gw.id]>>
                ELSE <<>>)
            \o (IF gw.type \in THIN_GATEWAYS /\ out_count = 1
                THEN <<[kind |-> "Gateway has only 1 outgoing flow", id |-> gw.id]>>
                ELSE <<>>)

\* steps 9 to 11: the warnings appended after the flows were validated
SoftWarnings(g) ==
    LET used == {g.flows[x].source : x \in DOMAIN g.flows}
                \cup {g.flows[x].target : x \in DOMAIN g.flows}
        orphan == SelectSeq(g.tasks, LAMBDA t : t.id # "" /\ t.id \notin used)
        reached == Reachable(g)
        unreachable == SelectSeq(g.tasks, LAMBDA t : t.id # "" /\ t.id \notin reached)
        end_ids == EventIds(g, "endEvent")
    IN (IF orphan # <<>> THEN <<[kind |-> "orphan task(s)", n |-> Len(orphan)]>> ELSE <<>>)
       \o (IF EventIds(g, "startEvent") = <<>> /\ EntryNodes(g) = <<>>
           THEN <<[kind |-> "Could not find an entry node"]>> ELSE <<>>)
       \o (IF unreachable # <<>>
           THEN <<[kind |-> "task(s) are unreachable", n |-> Len(unreachable)]>> ELSE <<>>)
       \o (IF end_ids # <<>> /\ ~\E x \in DOMAIN end_ids : end_ids[x] \in reached
           THEN <<[kind |-> "No endEvent is reachable"]>> ELSE <<>>)
       \o GatewayWarnings(g, Len(g.gateways))

-----------------------------------------------------------------------------
(* Inputs of an analysis run *)

Vectors == {<<1, 1>>, <<-1, -1>>, <<0, 1>>, <<1>>, <<>>}

EmbeddingLists(n, IdOf(_)) ==
    {[i \in 1..n |-> [id |-> IdOf(i), vector |-> vs[i]]] : vs \in [1..n -> Vectors]}

Shapes ==
    {sh \in (0..MaxTasks) \X (0..MaxCode) : sh[1] * sh[2] <= MaxCells}

SimilarityDict(n, m, matrix) ==
    [status |-> "ok", task_ids |-> TaskIds(n), code_ids |-> CodeIds(m),
     matrix |-> matrix]

\* similarity dicts whose matrix has the shape of the id lists
IsWellShaped(sim) ==
    \E sh \in Shapes :
        /\ sh[1] > 0 /\ sh[2] > 0
        /\ \E m \in [1..sh[1] -> [1..sh[2] -> Scores]] :
             sim = SimilarityDict(sh[1], sh[2], m)

\* matrices of any shape: empty, rectangular or ragged
OddMatrices ==
    {Filled(sh[1], sh[2], 1) : sh \in Shapes}
    \cup {<<Filled(1, a, 1)[1], Filled(1, MaxCode, 1)[1]>> : a \in 0..MaxCode}

\* similarity dicts whose matrix was not made for the id lists
IsOddShaped(sim) ==
    \E sh \in Shapes : \E m \in OddMatrices : sim = SimilarityDict(sh[1], sh[2], m)

IdleDoc == [wellformed |-> FALSE, elems |-> <<>>]

\* a metric not computed yet
Unset == <<>>

NoSummary == [precision |-> Unset, recall |-> Unset, f1 |-> Unset, alignment |-> Unset]

EvalIdle ==
    /\ eval_args = NoResult
    /\ details = NoResult
    /\ counts = NoResult
    /\ summary = NoSummary
    /\ epc = "idle"

CodeIdle ==
    /\ code_root = <<>>
    /\ summarizer = NoResult
    /\ artifacts = {}
    /\ res_all = NoResult
    /\ code_items = <<>>
    /\ cpc = "idle"
    /\ project = "None"
    /\ uploads = 0

StoreIdle == runs = <<>>

TraceIdle ==
    /\ visitor = NoResult
    /\ built = NoResult

ScoreIdle ==
    /\ score_args = NoResult
    /\ scores = NoResult

MonoIdle ==
    /\ threshold_hi = 0
    /\ matching_hi = NoResult

LaterIdle ==
    /\ CodeIdle
    /\ StoreIdle
    /\ TraceIdle
    /\ ScoreIdle
    /\ MonoIdle

RunIdle ==
    /\ stage = "idle"
    /\ run_status = "none"
    /\ bpmn_rows = <<>>
    /\ match_rows = <<>>

PrecheckIdle ==
    /\ doc = IdleDoc
    /\ gate = "idle"
    /\ evaluated = <<>>
    /\ graph = NoResult
    /\ warnings = <<>>
    /\ reachable = {}
    /\ result = NoResult

InitEmbedded ==
    /\ entry = "embeddings"
    /\ pc = "embedded"
    /\ \E n \in 0..MaxEmb : \E m \in 0..(MaxEmb - n) :
         /\ task_embeddings \in EmbeddingLists(n, TaskIdOf)
         /\ code_embeddings \in EmbeddingLists(m, CodeIdOf)
    /\ similarity = NoResult

InitSimilarity ==
    /\ entry = "similarity"
    /\ pc = "similarity"
    /\ task_embeddings = <<>>
    /\ code_embeddings = <<>>
    /\ IsWellShaped(similarity) \/ IsOddShaped(similarity)

Init ==
    /\ InitEmbedded \/ InitSimilarity
    /\ threshold \in Thresholds
    /\ matching = NoResult
    /\ top_k = NoResult
    /\ PrecheckIdle
    /\ RunIdle
    /\ EvalIdle
    /\ LaterIdle

-----------------------------------------------------------------------------
(* An analysis run: analyze_project steps 6 and 8 *)

ComputeSimilarity ==
    /\ pc = "embedded"
    /\ similarity' = compute_similarity(task_embeddings, code_embeddings)
    /\ pc' = IF similarity'.status = "raised" THEN "raised" ELSE "similarity"
    /\ UNCHANGED <<entry, task_embeddings, code_embeddings, threshold, matching, top_k>>
    /\ UNCHANGED <<precheckVars, runVars>>
    /\ UNCHANGED <<evalVars, laterVars>>

GreedyMatch ==
    /\ pc = "similarity"
    /\ matching' = greedy_one_to_one_match(similarity, threshold)
    /\ pc' = IF matching'.status = "raised" THEN "raised" ELSE "matched"
    /\ UNCHANGED <<entry, task_embeddings, code_embeddings, similarity, threshold, top_k>>
    /\ UNCHANGED <<precheckVars, runVars>>
    /\ UNCHANGED <<evalVars, laterVars>>

BestPerTaskMatch ==
    /\ pc = "similarity"
    /\ matching' = best_per_task_match(similarity, threshold)
    /\ pc' = IF matching'.status = "raised" THEN "raised" ELSE "matched"
    /\ UNCHANGED <<entry, task_embeddings, code_embeddings, similarity, threshold, top_k>>
    /\ UNCHANGED <<precheckVars, runVars>>
    /\ UNCHANGED <<evalVars, laterVars>>

TopKMatches ==
    /\ pc = "matched"
    /\ \E k \in KValues :
         \E ps \in ArgsortChoices(similarity.matrix,
                     IF IsRagged(similarity.matrix) THEN 0 ELSE NRows(similarity.matrix)) :
           top_k' = top_k_matches(similarity, k, ps)
    /\ pc' = IF top_k'.status = "raised" THEN "raised" ELSE "done"
    /\ UNCHANGED <<entry, task_embeddings, code_embeddings, similarity, threshold, matching>>
    /\ UNCHANGED <<precheckVars, runVars>>
    /\ UNCHANGED <<evalVars, laterVars>>

Next ==
    \/ ComputeSimilarity
    \/ GreedyMatch
    \/ BestPerTaskMatch
    \/ TopKMatches

Spec == Init /\ [][Next]_vars

-----------------------------------------------------------------------------
(* Properties of the matchers *)

IsGreedy == matching.status = "ok" /\ matching.meta.strategy = "greedy_one_to_one"

IsBestPerTask ==
    matching.status = "ok" /\ matching.meta.strategy = "best_per_task_many_to_one"

HasElements == \E i \in DOMAIN similarity.matrix : similarity.matrix[i] # <<>>

\* the matrix has the shape of the id lists and at least one element
ShapeMatches ==
    /\ HasElements
    /\ Len(similarity.matrix) = Len(similarity.task_ids)
    /\ \A i \in DOMAIN similarity.matrix :
         Len(similarity.matrix[i]) = Len(similarity.code_ids)

MatchedTaskIds == {matching.matched[x].task_id : x \in DOMAIN matching.matched}

MatchedCodeIds == {matching.matched[x].code_id : x \in DOMAIN matching.matched}

TaskIndex(tid) == CHOOSE i \in DOMAIN similarity.task_ids : similarity.task_ids[i] = tid

CodeIndex(cid) == CHOOSE j \in DOMAIN similarity.code_ids : similarity.code_ids[j] = cid

RowMax(row) == CHOOSE v \in Range(row) : \A w \in Range(row) : w <= v

\* C1: the matched list of greedy_one_to_one_match holds no task_id twice and
\* no code_id twice, whatever the matrix and the threshold.
C1_GreedyOneToOne ==
    IsGreedy =>
        \A x, y \in DOMAIN matching.matched :
            x # y => /\ matching.matched[x].task_id # matching.matched[y].task_id
                     /\ matching.matched[x].code_id # matching.matched[y].code_id

C1_Witness ==
    /\ IsGreedy
    /\ Len(matching.matched) >= 2
    /\ Len(matching.missing) >= 1
    /\ \E i \in DOMAIN similarity.matrix : \E j \in DOMAIN similarity.matrix[i] :
         /\ similarity.matrix[i][j] >= threshold
         /\ similarity.task_ids[i] \in Range(matching.missing)

\* C2: for both matchers every task_id of the input is in exactly one of
\* matched or missing, and extra is exactly the set of code_ids that occur in
\* no matched pair.
C2_Partition ==
    matching.status = "ok" =>
        /\ \A tid \in Range(similarity.task_ids) :
             (tid \in MatchedTaskIds) # (tid \in Range(matching.missing))
        /\ MatchedTaskIds \cup Range(matching.missing) \subseteq Range(similarity.task_ids)
        /\ Range(matching.extra) = Range(similarity.code_ids) \ MatchedCodeIds
        /\ Len(matching.missing) = Cardinality(Range(matching.missing))
        /\ Len(matching.extra) = Cardinality(Range(matching.extra))

C2_Witness ==
    /\ IsBestPerTask
    /\ Len(matching.matched) >= 2
    /\ Cardinality(MatchedCodeIds) = 1
    /\ Len(matching.missing) >= 1
    /\ Len(matching.extra) >= 1

\* the order of the reference procedure: score descending, then row-major
Precedes(a, b) ==
    \/ a.score > b.score
    \/ a.score = b.score /\ (a.i < b.i \/ (a.i = b.i /\ a.j < b.j))

Eligible ==
    {[score |-> similarity.matrix[i][j], i |-> i, j |-> j] :
        i \in DOMAIN similarity.task_ids, j \in DOMAIN similarity.code_ids}

\* the pairs the reference procedure accepts: an eligible pair at or above the
\* threshold is accepted iff no accepted pair before it shares its task or code
ReferenceAccepted ==
    CHOOSE A \in SUBSET {c \in Eligible : c.score >= threshold} :
        \A c \in Eligible :
            c \in A <=> /\ c.score >= threshold
                        /\ ~\E q \in A : Precedes(q, c) /\ (q.i = c.i \/ q.j = c.j)

AsCandidate(m) ==
    [score |-> m.score, i |-> TaskIndex(m.task_id), j |-> CodeIndex(m.code_id)]

\* C3: greedy_one_to_one_match returns exactly the pairs of the reference
\* procedure (score >= threshold, best score first, ties row-major, a pair
\* accepted iff its task and code are both unclaimed), in that order.
C3_GreedyReference ==
    (IsGreedy /\ ShapeMatches) =>
        /\ {AsCandidate(matching.matched[x]) : x \in DOMAIN matching.matched}
             = ReferenceAccepted
        /\ Len(matching.matched) = Cardinality(ReferenceAccepted)
        /\ \A x, y \in DOMAIN matching.matched :
             x < y => Precedes(AsCandidate(matching.matched[x]),
                               AsCandidate(matching.matched[y]))
        /\ \A x \in DOMAIN matching.matched : matching.matched[x].score >= threshold

\* two pairs of equal score compete for one code item: row-major order decides
C3_Witness ==
    /\ IsGreedy /\ ShapeMatches
    /\ Len(matching.matched) >= 2
    /\ \E a, b \in Eligible :
         /\ a.score = b.score /\ a.score >= threshold
         /\ a.j = b.j /\ a.i < b.i
         /\ a \in ReferenceAccepted
         /\ similarity.task_ids[b.i] \in Range(matching.missing)

\* the score greedy_one_to_one_match reads for the pair (i, j): the element of
\* the matrix, or 0 when the matrix has no element at all
ScoreAt(i, j) == IF HasElements THEN similarity.matrix[i][j] ELSE 0

\* C30: in every result of greedy_one_to_one_match there is no pair formed by
\* a task in missing and a code item in extra whose similarity score is >=
\* threshold: no acceptable pair is left unmatched on both sides.
C30_GreedyMaximal ==
    IsGreedy =>
        \A i \in DOMAIN similarity.task_ids : \A j \in DOMAIN similarity.code_ids :
            /\ similarity.task_ids[i] \in Range(matching.missing)
            /\ similarity.code_ids[j] \in Range(matching.extra)
            => ScoreAt(i, j) < threshold

\* a missing task and an extra code item exist next to a matched pair, and
\* the missing task has an acceptable score with a code item that was taken
C30_Witness ==
    /\ IsGreedy /\ ShapeMatches
    /\ matching.matched # <<>> /\ matching.missing # <<>> /\ matching.extra # <<>>
    /\ \E i \in DOMAIN similarity.task_ids : \E j \in DOMAIN similarity.code_ids :
           /\ similarity.task_ids[i] \in Range(matching.missing)
           /\ similarity.code_ids[j] \in MatchedCodeIds
           /\ similarity.matrix[i][j] >= threshold

\* C4: best_per_task_match matches at most one pair per task; a matched pair
\* carries the maximum of the task's row, which is >= threshold, at the lowest
\* code index holding it; a task whose row maximum is below threshold is missing.
C4_BestPerTask ==
    (IsBestPerTask /\ ShapeMatches) =>
        /\ Len(matching.matched) <= Len(similarity.task_ids)
        /\ \A x \in DOMAIN matching.matched :
             LET m == matching.matched[x]
                 row == similarity.matrix[TaskIndex(m.task_id)]
                 j == CodeIndex(m.code_id)
             IN /\ m.score = RowMax(row)
                /\ m.score >= threshold
                /\ row[j] = m.score
                /\ \A j2 \in 1..(j - 1) : row[j2] < m.score
        /\ \A i \in DOMAIN similarity.task_ids :
             RowMax(similarity.matrix[i]) < threshold
                => similarity.task_ids[i] \in Range(matching.missing)

C4_Witness ==
    /\ IsBestPerTask /\ ShapeMatches
    /\ \E x \in DOMAIN matching.matched :
         LET row == similarity.matrix[TaskIndex(matching.matched[x].task_id)]
         IN Cardinality({j \in DOMAIN row : row[j] = RowMax(row)}) >= 2
    /\ \E i \in DOMAIN similarity.task_ids :
         RowMax(similarity.matrix[i]) < threshold

-----------------------------------------------------------------------------
(* Properties of top_k_matches *)

TopKRan == top_k.status = "ok" /\ ShapeMatches

RowOf(tid) == similarity.matrix[TaskIndex(tid)]

RowDescendingTop(tid) ==
    LET r == top_k.results[tid]
        row == RowOf(tid)
        returned == {CodeIndex(r[x].code_id) : x \in DOMAIN r}
    IN /\ \A x, y \in DOMAIN r : x < y => r[x].score >= r[y].score
       /\ \A x \in DOMAIN r : r[x].code_id \in Range(similarity.code_ids)
                              /\ r[x].score = row[CodeIndex(r[x].code_id)]
       /\ Cardinality(returned) = Len(r)
       /\ \A j \in DOMAIN row : j \notin returned =>
             \A x \in DOMAIN r : row[j] <= r[x].score

C7_TopKLength ==
    TopKRan =>
        \A tid \in DOMAIN top_k.results :
            Len(top_k.results[tid]) = Max(0, Min(top_k.k, Len(similarity.code_ids)))

-----------------------------------------------------------------------------
(* Properties of the input validation *)

MatcherRan == matching.status # "none"

\* the matrix is no N x M matrix for the N task_ids and M code_ids given; the
\* empty matrix counts when both id lists are non-empty
ShapeDiffers ==
    \/ ~ShapeMatches /\ HasElements
    \/ ~HasElements /\ Len(similarity.task_ids) > 0 /\ Len(similarity.code_ids) > 0

\* C8: a matcher raises, and returns nothing, on every input whose matrix
\* shape differs from the id lists, the empty matrix with non-empty id lists
\* included.
C8_ShapeMismatchRaises ==
    (MatcherRan /\ ShapeDiffers) => matching.status = "raised"

\* C9: an empty task or code embedding list is no error: compute_similarity
\* returns the empty matrix, either matcher returns matched = [], missing = all
\* task ids, extra = all code ids, and with no code items precision, recall and
\* alignment are 0.0.
C9_EmptyInputs ==
    (entry = "embeddings" /\ (task_embeddings = <<>> \/ code_embeddings = <<>>)) =>
        /\ pc # "raised"
        /\ pc # "embedded" =>
             /\ similarity.status = "ok"
             /\ similarity.matrix = <<>>
             /\ similarity.task_ids = [i \in DOMAIN task_embeddings |-> task_embeddings[i].id]
             /\ similarity.code_ids = [j \in DOMAIN code_embeddings |-> code_embeddings[j].id]
        /\ pc \in {"matched", "done"} =>
             /\ matching.status = "ok"
             /\ matching.matched = <<>>
             /\ matching.missing = similarity.task_ids
             /\ matching.extra = similarity.code_ids
             /\ code_embeddings = <<>> =>
                  LET sm == summary_metrics(Len(matching.matched), Len(matching.missing),
                                            Len(matching.extra), Len(similarity.task_ids))
                  IN IsZero(sm.precision) /\ IsZero(sm.recall) /\ IsZero(sm.alignment)

C9_Witness ==
    /\ entry = "embeddings"
    /\ code_embeddings = <<>>
    /\ Len(task_embeddings) = 2
    /\ matching.status = "ok"
    /\ Len(matching.missing) = 2

-----------------------------------------------------------------------------
(* precheck_bpmn_xml, one action per numbered step of the function *)

MatchIdle ==
    /\ entry = "none"
    /\ pc = "idle"
    /\ task_embeddings = <<>>
    /\ code_embeddings = <<>>
    /\ similarity = NoResult
    /\ threshold = 0
    /\ matching = NoResult
    /\ top_k = NoResult

PrecheckInit ==
    /\ IsDoc(doc)
    /\ gate = "xml"
    /\ evaluated = <<>>
    /\ graph = NoResult
    /\ warnings = <<>>
    /\ reachable = {}
    /\ result = NoResult
    /\ MatchIdle
    /\ RunIdle
    /\ EvalIdle
    /\ LaterIdle

Return(r) ==
    /\ result' = r
    /\ gate' = "returned"

Pass(next) ==
    /\ result' = result
    /\ gate' = next

\* 1) XML well-formed check
GateXml ==
    /\ gate = "xml"
    /\ evaluated' = Append(evaluated, 1)
    /\ IF ~XmlParses(doc)
       THEN Return(PrecheckResult(FALSE, <<[msg |-> "Invalid XML"]>>, <<>>, "", 0))
       ELSE Pass("process")
    /\ UNCHANGED <<doc, graph, warnings, reachable>>
    /\ UNCHANGED <<matchVars, runVars>>
    /\ UNCHANGED <<evalVars, laterVars>>

\* 2) Must contain a process
GateProcess ==
    /\ gate = "process"
    /\ evaluated' = Append(evaluated, 2)
    /\ IF ~HasProcess(doc)
       THEN Return(PrecheckResult(FALSE, <<[msg |-> "No <process> element found"]>>,
                                  <<>>, "", 0))
       ELSE Pass("graph")
    /\ UNCHANGED <<doc, graph, warnings, reachable>>
    /\ UNCHANGED <<matchVars, runVars>>
    /\ UNCHANGED <<evalVars, laterVars>>

\* 3) Parse graph
GateGraph ==
    /\ gate = "graph"
    /\ evaluated' = Append(evaluated, 3)
    /\ IF extract_bpmn_graph(doc).status = "raised"
       THEN Return(PrecheckResult(FALSE, <<[msg |-> "Cannot parse BPMN graph"]>>,
                                  <<>>, FirstProcessName(doc), 0))
       ELSE Pass("tasks")
    /\ graph' = extract_bpmn_graph(doc)
    /\ UNCHANGED <<doc, warnings, reachable>>
    /\ UNCHANGED <<matchVars, runVars>>
    /\ UNCHANGED <<evalVars, laterVars>>

\* 4) Must have tasks
GateTasks ==
    /\ gate = "tasks"
    /\ evaluated' = Append(evaluated, 4)
    /\ IF Len(extract_bpmn_graph(doc).tasks) = 0
       THEN Return(PrecheckResult(FALSE, <<[msg |-> "No BPMN tasks found"]>>,
                                  <<>>, ProcessName(doc), 0))
       ELSE Pass("ids")
    /\ UNCHANGED <<doc, graph, warnings, reachable>>
    /\ UNCHANGED <<matchVars, runVars>>
    /\ UNCHANGED <<evalVars, laterVars>>

\* 5) Unique IDs (nodes)
GateUniqueIds ==
    /\ gate = "ids"
    /\ evaluated' = Append(evaluated, 5)
    /\ LET g == extract_bpmn_graph(doc)
           ids == NodeIdsList(g)
       IN IF Cardinality(Range(ids)) # Len(ids)
          THEN Return(PrecheckResult(FALSE,
                        <<[msg |-> "Duplicate BPMN element IDs found",
                           dupes |-> Dupes(ids)]>>,
                        <<>>, ProcessName(doc), Len(g.tasks)))
          ELSE Pass("events")
    /\ UNCHANGED <<doc, graph, warnings, reachable>>
    /\ UNCHANGED <<matchVars, runVars>>
    /\ UNCHANGED <<evalVars, laterVars>>

\* 6) Must have start/end events (warning by default)
StartEndEvents ==
    /\ gate = "events"
    /\ warnings' = warnings \o StartEndWarnings(extract_bpmn_graph(doc))
    /\ gate' = "flows"
    /\ UNCHANGED <<doc, evaluated, graph, reachable, result>>
    /\ UNCHANGED <<matchVars, runVars>>
    /\ UNCHANGED <<evalVars, laterVars>>

\* 7) Validate flows
GateFlows ==
    /\ gate = "flows"
    /\ evaluated' = Append(evaluated, 6)
    /\ LET g == extract_bpmn_graph(doc)
           bad_flows == BadFlows(g)
       IN IF bad_flows # <<>>
          THEN Return(PrecheckResult(FALSE,
                        <<[msg |-> "Invalid sequenceFlow references",
                           flows |-> SubSeq(bad_flows, 1, Min(Len(bad_flows), 10))]>>,
                        warnings, ProcessName(doc), Len(g.tasks)))
          ELSE Pass("soft")
    /\ UNCHANGED <<doc, graph, warnings, reachable>>
    /\ UNCHANGED <<matchVars, runVars>>
    /\ UNCHANGED <<evalVars, laterVars>>

\* 8) to 11) adjacency, orphans, reachability, gateways; DONE
SoftChecks ==
    /\ gate = "soft"
    /\ LET g == extract_bpmn_graph(doc)
       IN /\ reachable' = Reachable(g)
          /\ warnings' = warnings \o SoftWarnings(g)
          /\ Return(PrecheckResult(TRUE, <<>>, warnings', ProcessName(doc), Len(g.tasks)))
    /\ UNCHANGED <<doc, evaluated, graph>>
    /\ UNCHANGED <<matchVars, runVars>>
    /\ UNCHANGED <<evalVars, laterVars>>

PrecheckNext ==
    \/ GateXml
    \/ GateProcess
    \/ GateGraph
    \/ GateTasks
    \/ GateUniqueIds
    \/ StartEndEvents
    \/ GateFlows
    \/ SoftChecks

PrecheckSpec == PrecheckInit /\ [][PrecheckNext]_vars

-----------------------------------------------------------------------------
(* Properties of precheck_bpmn_xml *)

Elems(tags) == {x \in DOMAIN doc.elems : doc.elems[x].tag \in tags}

NodeElems ==
    {x \in Elems(TASK_TAGS \cup EVENT_TAGS \cup GATEWAY_TAGS) : doc.elems[x].id # ""}

\* what each hard gate demands of the document, read off its elements
GateFails(n) ==
    CASE n = 1 -> ~doc.wellformed
      [] n = 2 -> Elems({"process"}) = {}
      [] n = 3 -> ~doc.wellformed
      [] n = 4 -> ~\E x \in Elems(TASK_TAGS) : doc.elems[x].id # ""
      [] n = 5 -> \E x, y \in NodeElems : x # y /\ doc.elems[x].id = doc.elems[y].id
      [] n = 6 -> \E x \in Elems(FLOW_TAGS) :
                     LET f == doc.elems[x]
                         ids == {doc.elems[y].id : y \in NodeElems}
                     IN /\ f.id # "" /\ f.sourceRef # "" /\ f.targetRef # ""
                        /\ (f.sourceRef \notin ids \/ f.targetRef \notin ids)

GateMessage(n) ==
    CASE n = 1 -> "Invalid XML"
      [] n = 2 -> "No <process> element found"
      [] n = 3 -> "Cannot parse BPMN graph"
      [] n = 4 -> "No BPMN tasks found"
      [] n = 5 -> "Duplicate BPMN element IDs found"
      [] n = 6 -> "Invalid sequenceFlow references"

FailingGates == {n \in 1..6 : GateFails(n)}

FirstFailingGate == CHOOSE n \in FailingGates : \A m \in FailingGates : n <= m

GateOrder == [n \in 1..6 |-> n]

\* C10: the hard gates run in the order 1..6; the function returns at the first
\* gate the document fails, with ok = false and exactly the error of that gate,
\* and has evaluated no gate after it; it passes all six iff none fails.
C10_GatesShortCircuit ==
    /\ evaluated = SubSeq(GateOrder, 1, Len(evaluated))
    /\ gate = "returned" =>
         /\ result.ok <=> FailingGates = {}
         /\ result.ok => evaluated = GateOrder /\ result.errors = <<>>
         /\ ~result.ok =>
              /\ Len(result.errors) = 1
              /\ result.errors[1].msg = GateMessage(FirstFailingGate)
              /\ evaluated = SubSeq(GateOrder, 1, FirstFailingGate)

\* a document that fails gates 2, 4 and 6 at once returns at gate 2
C10_Witness ==
    /\ gate = "returned"
    /\ ~result.ok
    /\ Cardinality(FailingGates) >= 3
    /\ FirstFailingGate = 2
    /\ evaluated = <<1, 2>>

\* C11: soft checks run only after all six hard gates have passed: no warning
\* exists before gate 6 was evaluated, every result with ok = false carries an
\* empty warnings list, and a document that fails no hard gate is ok whatever
\* the soft checks found.
C11_SoftAfterHard ==
    /\ warnings # <<>> => evaluated = GateOrder
    /\ gate = "returned" =>
         /\ ~result.ok => result.warnings = <<>>
         /\ FailingGates = {} => result.ok

\* the ids of the document's tasks, events and gateways
NodeIdSet == {doc.elems[y].id : y \in NodeElems}

GatesOneToFivePass == FailingGates \cap (1..5) = {}

\* C12: a result with ok = true means every extracted flow's source and target
\* are ids of extracted tasks, events or gateways; when gates 1-5 pass and some
\* sequenceFlow's sourceRef or targetRef is no node id, the result is ok = false
\* with the error "Invalid sequenceFlow references".
C12_FlowIntegrity ==
    gate = "returned" =>
        /\ result.ok =>
             LET g == extract_bpmn_graph(doc)
             IN \A x \in DOMAIN g.flows :
                  g.flows[x].source \in NodeIdSet /\ g.flows[x].target \in NodeIdSet
        /\ ( /\ GatesOneToFivePass
             /\ \E x \in Elems(FLOW_TAGS) :
                  \/ doc.elems[x].sourceRef \notin NodeIdSet
                  \/ doc.elems[x].targetRef \notin NodeIdSet )
           => /\ ~result.ok
              /\ result.errors[1].msg = "Invalid sequenceFlow references"

\* C13: when gates 1-5 pass, a sequenceFlow whose sourceRef or targetRef is
\* missing or empty makes the result ok = false, and the error names that flow.
C13_MissingRefFails ==
    gate = "returned" =>
        \A x \in Elems(FLOW_TAGS) :
            ( /\ GatesOneToFivePass
              /\ (doc.elems[x].sourceRef = "" \/ doc.elems[x].targetRef = "") )
            => /\ ~result.ok
               /\ result.errors[1].msg = "Invalid sequenceFlow references"
               /\ doc.elems[x].id \in Range(result.errors[1].flows)

\* the ids of all elements of a graph: tasks, events, gateways, then flows
AllElementIds(g) ==
    LET all == g.tasks \o g.events \o g.gateways \o g.flows
    IN [x \in 1..Len(all) |-> all[x].id]

\* C14: in a graph that passed precheck every element id is non-empty and no
\* id is shared by two elements among tasks, events, gateways and flows.
C14_GloballyUniqueIds ==
    (gate = "returned" /\ result.ok) =>
        LET ids == AllElementIds(extract_bpmn_graph(doc))
        IN /\ \A x \in DOMAIN ids : ids[x] # ""
           /\ \A x, y \in DOMAIN ids : x # y => ids[x] # ids[y]

\* the nodes the traversal starts from, read off the graph: the start events,
\* or the nodes no flow points to when there is no start event
RefEntry(g) ==
    LET starts == {g.events[x].id : x \in {y \in DOMAIN g.events :
                                             g.events[y].type = "startEvent"}}
        targets == {g.flows[x].target : x \in DOMAIN g.flows}
    IN IF starts # {} THEN starts
       ELSE {n.id : n \in Range(g.tasks) \cup Range(g.events) \cup Range(g.gateways)}
            \ targets

\* the least set holding S and closed under the directed flow edges
RECURSIVE RefClosure(_, _)
RefClosure(g, S) ==
    LET T == S \cup {g.flows[x].target : x \in {y \in DOMAIN g.flows :
                                                   g.flows[y].source \in S}}
    IN IF T = S THEN S ELSE RefClosure(g, T)

HasCycle(g) ==
    \E x \in DOMAIN g.flows :
        g.flows[x].source \in RefClosure(g, {g.flows[x].target})

UnreachableWarnings ==
    {x \in DOMAIN result.warnings : result.warnings[x].kind = "task(s) are unreachable"}

\* C15: the set the breadth-first traversal computes is the set of nodes
\* reachable over the directed flow edges from the start events (from the
\* in-degree-zero nodes when there is no start event), cycles included; the
\* unreachable-task warning is present iff some task is outside that set and
\* carries the number of such tasks.
C15_Reachability ==
    (gate = "returned" /\ result.ok) =>
        LET g == extract_bpmn_graph(doc)
            ref == RefClosure(g, RefEntry(g))
            outside == {x \in DOMAIN g.tasks : g.tasks[x].id \notin ref}
        IN /\ reachable = ref
           /\ UnreachableWarnings # {} <=> outside # {}
           /\ Cardinality(UnreachableWarnings) <= 1
           /\ \A x \in UnreachableWarnings :
                result.warnings[x].n = Cardinality(outside)

\* a graph with a cycle through the start event and the task, both visited
C15_Witness ==
    /\ gate = "returned" /\ result.ok
    /\ HasCycle(extract_bpmn_graph(doc))
    /\ {"s", "a"} \subseteq reachable
    /\ \E x \in DOMAIN doc.elems : doc.elems[x].sourceRef = "a" /\ doc.elems[x].targetRef = "s"

\* the first process element in document order
FirstProcessElem ==
    LET x == CHOOSE y \in Elems({"process"}) : \A z \in Elems({"process"}) : y <= z
    IN doc.elems[x]

\* C16: the process id and name of the graph are those of the first process
\* element in document order; no later process element changes them.
C16_FirstProcessWins ==
    graph.status = "ok" =>
        /\ graph.process.id = FirstProcessElem.id
        /\ graph.process.name = FirstProcessElem.name

-----------------------------------------------------------------------------
(* run_analysis_for_project and analyze_project on the project's active BPMN *)
(* document: api_upload_bpmn stores any upload as the active BPMN and        *)
(* api_run_analysis starts the run without looking at the precheck           *)

MaxRunElems == 3

MaxRunCode == 2

\* LocalEmbedder is a deterministic function of the text; the model fixes one
Embedder(text) ==
    CASE text = "Take Order" -> <<1, 1>>
      [] text = "Ship" -> <<0, 1>>
      [] OTHER -> <<-1, -1>>

EmbeddedTasks(tasks) ==
    [x \in DOMAIN tasks |-> [id |-> tasks[x].id, vector |-> Embedder(tasks[x].name)]]

\* the embedded code items of a project with m functions
EmbeddedCode(m) ==
    [j \in 1..m |-> [id |-> CodeIdOf(j),
                     vector |-> IF j % 2 = 1 THEN <<1, 1>> ELSE <<0, 1>>]]

\* replace_bpmn_tasks: the rows built from the parsed tasks
TaskRows(tasks) ==
    [x \in DOMAIN tasks |->
        [task_id |-> tasks[x].id,
         name |-> IF tasks[x].name = "" THEN "Unnamed Task" ELSE tasks[x].name]]

\* BpmnTask.objects.bulk_create under the constraint uniq_project_taskid: the
\* table with the new rows, or IntegrityError when a task_id would occur twice
bulk_create_tasks(table, rows) ==
    LET all == table \o rows
    IN IF \E x, y \in DOMAIN all : x # y /\ all[x].task_id = all[y].task_id
       THEN Raised
       ELSE [status |-> "ok", rows |-> all]

\* MatchResult.task is on_delete=SET_NULL: deleting the BpmnTask rows nulls
\* the task of every MatchResult row
SetNull(mrows) == [x \in DOMAIN mrows |-> [mrows[x] EXCEPT !.task = ""]]

\* replace_match_results: the MatchResult objects built from the result
\* dicts, task looked up among the stored BpmnTask rows ("" is None)
MatchResultRows(results, tasks) ==
    [x \in DOMAIN results |->
        [status |-> results[x].status,
         task |-> IF \E y \in DOMAIN tasks : tasks[y].task_id = results[x].task_id
                  THEN results[x].task_id ELSE "",
         code_ref |-> results[x].code_ref,
         similarity_score |-> results[x].similarity_score]]

\* run_analysis_for_project step 5: engine output -> storage_results dicts
\* (code ids are tuples in the model, the empty code_ref is <<>>)
ResultRows(m) ==
    [x \in DOMAIN m.matched |->
        [status |-> "MATCHED", task_id |-> m.matched[x].task_id,
         code_ref |-> m.matched[x].code_id, similarity_score |-> m.matched[x].score]]
    \o [x \in DOMAIN m.missing |->
        [status |-> "MISSING", task_id |-> m.missing[x],
         code_ref |-> <<>>, similarity_score |-> 0]]
    \o [x \in DOMAIN m.extra |->
        [status |-> "EXTRA", task_id |-> "",
         code_ref |-> m.extra[x], similarity_score |-> 0]]

\* the run row was created and set RUNNING; threshold holds the project's
\* similarity_threshold
RunInit ==
    /\ IsDocUpTo(doc, MaxRunElems)
    /\ gate = "idle"
    /\ evaluated = <<>>
    /\ graph = NoResult
    /\ warnings = <<>>
    /\ reachable = {}
    /\ result = NoResult
    /\ entry = "run"
    /\ pc = "idle"
    /\ task_embeddings = <<>>
    /\ code_embeddings = <<>>
    /\ similarity = NoResult
    /\ threshold \in Thresholds
    /\ matching = NoResult
    /\ top_k = NoResult
    /\ stage = "created"
    /\ run_status = "RUNNING"
    /\ bpmn_rows = <<>>
    /\ match_rows = <<>>
    /\ EvalIdle
    /\ LaterIdle

\* run_analysis_for_project steps 1 to 4 up to the call of analyze_project
\* (replace_bpmn_tasks deletes the rows, then bulk_create raises on a task id
\* that occurs twice in the document);
\* "similarity_threshold or 0.6" turns a threshold of 0.0 into 0.6, which
\* accepts the same scores of Scores as 1
RunPrepare ==
    /\ stage = "created"
    /\ LET parsed == extract_tasks(doc)
       IN IF parsed.status = "raised"
          THEN /\ run_status' = "FAILED"
               /\ stage' = "returned"
               /\ UNCHANGED <<bpmn_rows, threshold>>
          ELSE LET stored == bulk_create_tasks(<<>>, TaskRows(parsed.tasks))
               IN IF stored.status = "raised"
                  THEN /\ bpmn_rows' = <<>>
                       /\ run_status' = "FAILED"
                       /\ stage' = "returned"
                       /\ UNCHANGED threshold
                  ELSE /\ bpmn_rows' = stored.rows
                       /\ threshold' = IF threshold = 0 THEN 1 ELSE threshold
                       /\ stage' = "parse"
                       /\ UNCHANGED run_status
    /\ match_rows' = IF extract_tasks(doc).status = "raised"
                     THEN match_rows ELSE SetNull(match_rows)
    /\ UNCHANGED <<entry, pc, task_embeddings, code_embeddings, similarity,
                   matching, top_k>>
    /\ UNCHANGED precheckVars
    /\ UNCHANGED <<evalVars, laterVars>>

\* analyze_project 1) BPMN parsing, then the call of run_bpmn_predev, which
\* enters precheck_bpmn_xml
AnalyzeParse ==
    /\ stage = "parse"
    /\ graph' = extract_bpmn_graph(doc)
    /\ gate' = "xml"
    /\ stage' = "predev"
    /\ UNCHANGED <<doc, evaluated, warnings, reachable, result>>
    /\ UNCHANGED <<run_status, bpmn_rows, match_rows>>
    /\ UNCHANGED matchVars
    /\ UNCHANGED <<evalVars, laterVars>>

\* analyze_project 2): run_bpmn_predev has returned; only its summary is read,
\* whatever its "ok" says
PredevReturn ==
    /\ stage = "predev"
    /\ gate = "returned"
    /\ stage' = "embed"
    /\ UNCHANGED <<run_status, bpmn_rows, match_rows>>
    /\ UNCHANGED <<matchVars, precheckVars>>
    /\ UNCHANGED <<evalVars, laterVars>>

\* analyze_project 3) to 5): the code items of the project and embed_pipeline
EmbedPipeline ==
    /\ stage = "embed"
    /\ task_embeddings' = EmbeddedTasks(graph.tasks)
    /\ \E m \in 0..MaxRunCode : code_embeddings' = EmbeddedCode(m)
    /\ pc' = "embedded"
    /\ stage' = "match"
    /\ UNCHANGED <<entry, similarity, threshold, matching, top_k>>
    /\ UNCHANGED <<run_status, bpmn_rows, match_rows>>
    /\ UNCHANGED precheckVars
    /\ UNCHANGED <<evalVars, laterVars>>

\* run_analysis_for_project steps 5 and 6, and its except clause
Finish ==
    /\ stage = "match"
    /\ pc \in {"done", "raised"}
    /\ IF pc = "raised"
       THEN run_status' = "FAILED" /\ UNCHANGED match_rows
       ELSE /\ run_status' = "DONE"
            /\ match_rows' = MatchResultRows(ResultRows(matching), bpmn_rows)
    /\ stage' = "returned"
    /\ UNCHANGED bpmn_rows
    /\ UNCHANGED <<matchVars, precheckVars>>
    /\ UNCHANGED <<evalVars, laterVars>>

RunNext ==
    \/ RunPrepare
    \/ AnalyzeParse
    \/ GateXml
    \/ GateProcess
    \/ GateGraph
    \/ GateTasks
    \/ GateUniqueIds
    \/ StartEndEvents
    \/ GateFlows
    \/ SoftChecks
    \/ PredevReturn
    \/ EmbedPipeline
    \/ ComputeSimilarity
    \/ GreedyMatch
    \/ TopKMatches
    \/ Finish

RunSpec == RunInit /\ [][RunNext]_vars

\* C17: on a document that fails a hard gate of precheck_bpmn_xml (ok = false)
\* an analysis run never reaches the embedding, similarity or matching stage
\* and produces no matched/missing/extra result.
C17_PrecheckGatesPipeline ==
    FailingGates # {} =>
        /\ pc = "idle"
        /\ task_embeddings = <<>> /\ code_embeddings = <<>>
        /\ similarity = NoResult
        /\ matching = NoResult
        /\ match_rows = <<>>

-----------------------------------------------------------------------------
(* evaluate_traceability step by step, and the metrics called on their own *)

MaxEvalTasks == 2

MaxEvalCode == 2

MaxMatches == 2

MaxCount == 3

EvalTaskIds == {"T1", "T2", ""}

EvalThresholds == {0, 1, 2}

Match(tid, cid, sim) == [taskId |-> tid, codeId |-> cid, similarity |-> sim]

MatchPool ==
    { Match("T1", "c1", 1), Match("T1", "c2", 1), Match("T1", "c2", 0),
      Match("T2", "c2", 1), Match("T2", "c2", 0), Match("", "c1", 1) }

EvalCodeItems(m) == [j \in 1..m |-> [codeId |-> IF j = 1 THEN "c1" ELSE
                                                 IF j = 2 THEN "c2" ELSE "c3"]]

\* a call of evaluate_traceability
InitEvaluate ==
    /\ \E n \in 0..MaxEvalTasks : \E m \in 0..MaxEvalCode : \E k \in 0..MaxMatches :
         \E ts \in [1..n -> EvalTaskIds] : \E ms \in [1..k -> MatchPool] :
           \E t \in EvalThresholds :
             eval_args = [bpmn_tasks |-> [x \in 1..n |-> [taskId |-> ts[x]]],
                          code_items |-> EvalCodeItems(m),
                          matches |-> ms,
                          threshold |-> t]
    /\ counts = NoResult
    /\ epc = "classify"

\* the metrics called with counts of the caller's choice
InitMetrics ==
    /\ eval_args = NoResult
    /\ \E tp, fn, fp, total \in 0..MaxCount :
         counts = [tp |-> tp, fn |-> fn, fp |-> fp, total_tasks |-> total]
    /\ epc = "counted"

EvalInit ==
    /\ InitEvaluate \/ InitMetrics
    /\ details = NoResult
    /\ summary = NoSummary
    /\ MatchIdle
    /\ PrecheckIdle
    /\ RunIdle
    /\ LaterIdle

\* evaluate_traceability up to the counts
Classify ==
    /\ epc = "classify"
    /\ details' = Classification(eval_args)
    /\ counts' = [tp |-> Len(details'.matched), fn |-> Len(details'.missing),
                  fp |-> Len(details'.extra),
                  total_tasks |-> Len(TasksById(eval_args))]
    /\ epc' = "counted"
    /\ UNCHANGED <<eval_args, summary>>
    /\ UNCHANGED <<matchVars, precheckVars, runVars, laterVars>>

Precision ==
    /\ epc = "counted"
    /\ summary' = [summary EXCEPT !.precision = precision(counts.tp, counts.fp)]
    /\ epc' = "precision"
    /\ UNCHANGED <<eval_args, details, counts>>
    /\ UNCHANGED <<matchVars, precheckVars, runVars, laterVars>>

Recall ==
    /\ epc = "precision"
    /\ summary' = [summary EXCEPT !.recall = recall(counts.tp, counts.fn)]
    /\ epc' = "recall"
    /\ UNCHANGED <<eval_args, details, counts>>
    /\ UNCHANGED <<matchVars, precheckVars, runVars, laterVars>>

F1Score ==
    /\ epc = "recall"
    /\ summary' = [summary EXCEPT !.f1 = f1_score(summary.precision, summary.recall)]
    /\ epc' = "f1"
    /\ UNCHANGED <<eval_args, details, counts>>
    /\ UNCHANGED <<matchVars, precheckVars, runVars, laterVars>>

Alignment ==
    /\ epc = "f1"
    /\ summary' = [summary EXCEPT !.alignment =
                      alignment_pct(counts.tp, counts.total_tasks)]
    /\ epc' = "done"
    /\ UNCHANGED <<eval_args, details, counts>>
    /\ UNCHANGED <<matchVars, precheckVars, runVars, laterVars>>

EvalNext ==
    \/ Classify
    \/ Precision
    \/ Recall
    \/ F1Score
    \/ Alignment

EvalSpec == EvalInit /\ [][EvalNext]_vars

-----------------------------------------------------------------------------
(* Properties of the metrics and of evaluate_traceability *)

\* a float that exists: no division by zero produced it
IsFloat(q) == q[2] > 0

RatEq(a, b) == a[1] * b[2] = b[1] * a[2]

\* C18: no metric raises on a zero denominator: precision is 0.0 when
\* tp + fp = 0, recall is 0.0 when tp + fn = 0, f1_score is 0.0 when
\* p + r = 0, alignment_pct is 0.0 when total_tasks = 0; otherwise precision
\* is tp/(tp+fp) and recall is tp/(tp+fn).
C18_ZeroDenominators ==
    /\ summary.precision # Unset =>
         /\ IsFloat(summary.precision)
         /\ IF counts.tp + counts.fp = 0 THEN summary.precision[1] = 0
            ELSE RatEq(summary.precision, <<counts.tp, counts.tp + counts.fp>>)
    /\ summary.recall # Unset =>
         /\ IsFloat(summary.recall)
         /\ IF counts.tp + counts.fn = 0 THEN summary.recall[1] = 0
            ELSE RatEq(summary.recall, <<counts.tp, counts.tp + counts.fn>>)
    /\ summary.f1 # Unset =>
         /\ IsFloat(summary.f1)
         /\ (summary.precision[1] = 0 /\ summary.recall[1] = 0) => summary.f1[1] = 0
    /\ summary.alignment # Unset =>
         /\ IsFloat(summary.alignment)
         /\ counts.total_tasks = 0 => summary.alignment[1] = 0

\* all four denominators are zero at once
C18_Witness ==
    /\ epc = "done"
    /\ counts.tp = 0 /\ counts.fp = 0 /\ counts.fn = 0 /\ counts.total_tasks = 0
    /\ summary.precision = <<0, 1>> /\ summary.recall = <<0, 1>>
    /\ summary.f1 = <<0, 1>> /\ summary.alignment = <<0, 1>>

\* C19: alignment_pct(matched, total) lies in [0, 100] for all non-negative
\* matched and total, and alignment_pct(0, 0) = 0.0.
C19_AlignmentRange ==
    summary.alignment # Unset =>
        /\ summary.alignment[1] >= 0
        /\ summary.alignment[1] <= 100 * summary.alignment[2]
        /\ (counts.tp = 0 /\ counts.total_tasks = 0) => summary.alignment[1] = 0

\* the candidates of a task, read off the arguments
CandidatesOf(tid) == {x \in DOMAIN eval_args.matches : eval_args.matches[x].taskId = tid}

ShouldMatch(tid) ==
    /\ CandidatesOf(tid) # {}
    /\ \E x \in CandidatesOf(tid) : eval_args.matches[x].similarity >= eval_args.threshold

GivenTaskIds ==
    {eval_args.bpmn_tasks[x].taskId : x \in DOMAIN eval_args.bpmn_tasks} \ {""}

GivenCodeIds ==
    {eval_args.code_items[x].codeId : x \in DOMAIN eval_args.code_items} \ {""}

Ids(list, field) == {list[x][field] : x \in DOMAIN list}

\* C20: a task with a taskId is matched iff it has a candidate and its highest
\* candidate similarity is >= threshold, otherwise it is missing, so matched
\* and missing together count total_tasks; a code item is extra iff it is the
\* chosen code of no matched task; the summary is computed from
\* TP = matched_count, FN = missing_count, FP = extra_count.
C20_Classification ==
    details.status = "ok" =>
        /\ Ids(details.matched, "taskId") = {tid \in GivenTaskIds : ShouldMatch(tid)}
        /\ Ids(details.missing, "taskId") = {tid \in GivenTaskIds : ~ShouldMatch(tid)}
        /\ Len(details.matched) = Cardinality(Ids(details.matched, "taskId"))
        /\ Len(details.missing) = Cardinality(Ids(details.missing, "taskId"))
        /\ Len(details.matched) + Len(details.missing) = counts.total_tasks
        /\ counts.total_tasks = Cardinality(GivenTaskIds)
        /\ Ids(details.extra, "codeId") = GivenCodeIds \ Ids(details.matched, "codeId")
        /\ Len(details.extra) = Cardinality(Ids(details.extra, "codeId"))
        /\ counts.tp = Len(details.matched)
        /\ counts.fn = Len(details.missing)
        /\ counts.fp = Len(details.extra)
        /\ epc = "done" =>
             /\ RatEq(summary.precision,
                      IF Len(details.matched) + Len(details.extra) = 0 THEN <<0, 1>>
                      ELSE <<Len(details.matched),
                             Len(details.matched) + Len(details.extra)>>)
             /\ RatEq(summary.recall,
                      IF Len(details.matched) + Len(details.missing) = 0 THEN <<0, 1>>
                      ELSE <<Len(details.matched),
                             Len(details.matched) + Len(details.missing)>>)

\* one task matched at the threshold, the other missing with a candidate
\* below the threshold whose code item is extra
C20_Witness ==
    /\ details.status = "ok"
    /\ epc = "done"
    /\ \E x \in DOMAIN details.matched :
         details.matched[x].similarity = eval_args.threshold
    /\ \E x \in DOMAIN details.missing : \E y \in DOMAIN eval_args.matches :
         /\ eval_args.matches[y].taskId = details.missing[x].taskId
         /\ eval_args.matches[y].codeId \in Ids(details.extra, "codeId")

-----------------------------------------------------------------------------
(* The code side of analyze_project (steps 3 to 5) and the code upload that   *)
(* persists CodeArtifact rows.  A text is a sequence of strings, the empty    *)
(* text is <<>>.                                                              *)

MaxFunctions == 2

MaxUploads == 2

\* one record of extract_structured_from_directory
StructuredFunction(uid, file, name, calls, writes, returns) ==
    [function_uid |-> uid, file_path |-> file, function_name |-> name,
     calls |-> calls, writes |-> writes, returns |-> returns]

FunctionPool ==
    { StructuredFunction("billing.py::pay@L1-L3", "billing.py", "pay",
                         <<"charge">>, <<>>, <<"None">>),
      StructuredFunction("orders.py::ship@L6-L9", "orders.py", "ship",
                         <<>>, <<>>, <<>>),
      StructuredFunction("orders.py::take_order@L1-L4", "orders.py", "take_order",
                         <<"save">>, <<"order.status">>, <<"expr">>) }

FunctionUids == { f.function_uid : f \in FunctionPool }

FunctionOf(uid) == CHOOSE f \in FunctionPool : f.function_uid = uid

\* a code snapshot: the functions of one extracted folder, each once
IsSnapshot(fs) ==
    \E n \in 0..MaxFunctions :
        /\ fs \in [1..n -> FunctionPool]
        /\ \A x, y \in 1..n : x # y => fs[x] # fs[y]

\* what _call_model returns for the short prompt of a function, whitespace
\* collapsed: the text and what validate_code_compare_line reads off it
ModelOutput(text, has_format, title_words, desc_words, periods) ==
    [status |-> "ok", text |-> text, has_format |-> has_format,
     title_words |-> title_words, desc_words |-> desc_words, periods |-> periods]

OutputPool ==
    { ModelOutput(<<"Task: Record Order.", "Description: twelve words.">>, TRUE, 2, 12, 1),
      ModelOutput(<<>>, FALSE, 0, 0, 0),
      ModelOutput(<<"records the order">>, FALSE, 0, 0, 0),
      ModelOutput(<<"Task: Order.", "Description: twelve words.">>, TRUE, 1, 12, 1),
      ModelOutput(<<"Task: Record Order.", "Description: twenty-three words.">>, TRUE, 2, 23, 1) }

\* the outcomes of _call_model: it raises, or it returns a text
ModelOutcomes == OutputPool \cup {Raised}

\* postprocess.validate_code_compare_line: the text, or ValueError
validate_code_compare_line(o) ==
    IF ~o.has_format THEN Raised
    ELSE IF o.title_words < 2 \/ o.title_words > 6 THEN Raised
    ELSE IF o.desc_words < 12 \/ o.desc_words > 22 THEN Raised
    ELSE IF o.periods > 1 THEN Raised
    ELSE [status |-> "ok", text |-> o.text]

\* SummaryService.summarize_many over the first n functions: the dict built
\* so far, or Raised as soon as _call_model or the validation raises
RECURSIVE SummarizeLoop(_, _, _)
SummarizeLoop(fs, out, n) ==
    IF n = 0 THEN [status |-> "ok", short |-> [u \in {} |-> <<>>]]
    ELSE LET prev == SummarizeLoop(fs, out, n - 1)
             uid == fs[n].function_uid
             raw == out[uid]
         IN IF prev.status = "raised" THEN Raised
            ELSE IF raw.status = "raised" THEN Raised
            ELSE LET clean == validate_code_compare_line(raw)
                 IN IF clean.status = "raised" THEN Raised
                    ELSE [status |-> "ok",
                          short |-> [u \in DOMAIN prev.short \cup {uid} |->
                                        IF u = uid THEN clean.text ELSE prev.short[u]]]

summarize_many(fs, out) == SummarizeLoop(fs, out, Len(fs))

\* analyze._humanize_symbol on the names of the pool
humanize_symbol(name) ==
    CASE name = "pay" -> "Pay"
      [] name = "ship" -> "Ship"
      [] name = "take_order" -> "Take order"
      [] OTHER -> ""

FallbackBits(sf) ==
    (IF sf.calls # <<>> THEN <<"calls other routines">> ELSE <<>>)
    \o (IF sf.writes # <<>> THEN <<"updates data">> ELSE <<>>)
    \o (IF sf.returns # <<>> THEN <<"returns a result">> ELSE <<>>)

FallbackTail(sf) ==
    IF FallbackBits(sf) # <<>> THEN FallbackBits(sf)
    ELSE <<"implements its main behavior based on available code context">>

\* analyze._fallback_summary
fallback_summary(sf) ==
    <<IF humanize_symbol(sf.function_name) # ""
      THEN humanize_symbol(sf.function_name) ELSE "Function">> \o FallbackTail(sf)

\* projects/services._fallback_summary: the name with spaces for underscores
upload_fallback_summary(sf) ==
    <<CASE sf.function_name = "take_order" -> "take order"
        [] sf.function_name = "" -> "function"
        [] OTHER -> sf.function_name>> \o FallbackTail(sf)

\* the "short" analyze_project reads for uid out of res_all ({} after a raise)
ShortOf(res, uid) ==
    IF res.status = "ok" /\ uid \in DOMAIN res.short THEN res.short[uid] ELSE <<>>

CodeItem(uid, name, summary_text) ==
    [id |-> uid, name |-> name, summary_text |-> summary_text,
     text |-> <<"Task:", humanize_symbol(name), "Description:">> \o summary_text]

\* analyze_project step 4: the code items built from the extracted functions
SlowPathItems(fs, res) ==
    [x \in DOMAIN fs |->
        LET short == ShortOf(res, fs[x].function_uid)
        IN CodeItem(fs[x].function_uid, fs[x].function_name,
                    IF short = <<>> THEN fallback_summary(fs[x]) ELSE short)]

Artifact(uid, file, symbol, summary_text) ==
    [code_uid |-> uid, file_path |-> file, symbol |-> symbol,
     summary_text |-> summary_text]

\* CodeArtifact.objects.update_or_create for every row of rows
UpdateOrCreate(table, rows) ==
    { a \in table : \A r \in rows : r.code_uid # a.code_uid } \cup rows

\* the rows _persist_code_artifacts_with_summaries writes at upload
UploadRows(fs, res) ==
    { LET short == ShortOf(res, fs[x].function_uid)
      IN Artifact(fs[x].function_uid, fs[x].file_path, fs[x].function_name,
                  IF short = <<>> THEN upload_fallback_summary(fs[x]) ELSE short)
      : x \in DOMAIN fs }

\* the rows analyze_project persists after the slow path
AnalyzeRows(fs, items) ==
    { Artifact(fs[x].function_uid, fs[x].file_path, fs[x].function_name,
               items[x].summary_text) : x \in DOMAIN fs }

\* the pool ordered by (file_path, symbol)
OrderedUids ==
    <<"billing.py::pay@L1-L3", "orders.py::ship@L6-L9", "orders.py::take_order@L1-L4">>

\* analyze._artifact_rel_or_skip: a relative path below the code root is kept
\* whether or not the file still exists; an empty path is skipped
artifact_rel_or_skip(file_path) == file_path

\* analyze_project step 3: the persisted artifacts of the project in
\* order_by("file_path", "symbol"), filtered by their path
FastPathItems(table) ==
    LET kept == SelectSeq(OrderedUids, LAMBDA u :
                    \E a \in table : a.code_uid = u /\ artifact_rel_or_skip(a.file_path) # "")
        row(u) == CHOOSE a \in table : a.code_uid = u
    IN [x \in DOMAIN kept |->
          CodeItem(kept[x], row(kept[x]).symbol,
                   IF row(kept[x]).summary_text = <<>>
                   THEN <<"Implements its main behavior based on available code context.">>
                   ELSE row(kept[x]).summary_text)]

\* the BPMN document of the project whose code is analysed
OrderDoc ==
    [wellformed |-> TRUE,
     elems |-> <<Element("process", "P1", "Order", "", ""),
                 Element("task", "a", "Take Order", "", ""),
                 Element("serviceTask", "b", "Ship", "", "")>>]

\* LocalEmbedder on the text of a code item; the model fixes one function
CodeEmbedder(text) ==
    CASE text[2] = "Take order" -> <<1, 1>>
      [] text[2] = "Ship" -> <<0, 1>>
      [] OTHER -> <<-1, -1>>

EmbeddedItems(items) ==
    [x \in DOMAIN items |-> [id |-> items[x].id, vector |-> CodeEmbedder(items[x].text)]]

\* a project without code yet (or a stateless call of the engine), and a
\* summarization model that answers each function's prompt in one fixed way
CodeInit ==
    /\ summarizer \in [FunctionUids -> ModelOutcomes]
    /\ project \in {"P1", "None"}
    /\ code_root = <<>>
    /\ artifacts = {}
    /\ uploads = 0
    /\ res_all = NoResult
    /\ code_items = <<>>
    /\ cpc = "ready"
    /\ entry = "code"
    /\ pc = "idle"
    /\ task_embeddings = <<>>
    /\ code_embeddings = <<>>
    /\ similarity = NoResult
    /\ threshold = 1
    /\ matching = NoResult
    /\ top_k = NoResult
    /\ PrecheckIdle
    /\ RunIdle
    /\ EvalIdle
    /\ StoreIdle
    /\ TraceIdle
    /\ ScoreIdle
    /\ MonoIdle

\* save_code_zip_and_extract: the extracted folder is replaced by the new
\* snapshot and _persist_code_artifacts_with_summaries runs inside a try (a
\* SummaryService that fails to load persists nothing).  The stateless engine
\* endpoint unzips the code once and persists nothing.
UploadCode ==
    /\ cpc = "ready"
    /\ uploads < (IF project = "None" THEN 1 ELSE MaxUploads)
    /\ \E fs \in [1..MaxFunctions -> FunctionPool] \cup [1..(MaxFunctions - 1) -> FunctionPool]
                 \cup {<<>>} :
         /\ IsSnapshot(fs)
         /\ code_root' = fs
         /\ \E loads \in BOOLEAN :
              artifacts' =
                 IF project # "None" /\ loads
                 THEN UpdateOrCreate(artifacts, UploadRows(fs, summarize_many(fs, summarizer)))
                 ELSE artifacts
    /\ uploads' = uploads + 1
    /\ UNCHANGED <<summarizer, res_all, code_items, cpc, project>>
    /\ UNCHANGED <<matchVars, precheckVars, runVars, evalVars>>
    /\ UNCHANGED <<storeVars, traceVars, scoreVars, monoVars>>

\* analyze_project step 3: the fast path over the persisted artifacts
LoadArtifacts ==
    /\ cpc = "ready"
    /\ uploads >= 1
    /\ code_items' = IF project # "None" THEN FastPathItems(artifacts) ELSE <<>>
    /\ cpc' = IF code_items' # <<>> THEN "items" ELSE "extract"
    /\ UNCHANGED <<code_root, summarizer, artifacts, res_all, project, uploads>>
    /\ UNCHANGED <<matchVars, precheckVars, runVars, evalVars>>
    /\ UNCHANGED <<storeVars, traceVars, scoreVars, monoVars>>

\* analyze_project step 4, lines 247-255: SummaryService() is constructed
\* outside the try, summarize_many inside it
SummarizeMany ==
    /\ cpc = "extract"
    /\ \E loads \in BOOLEAN :
         IF loads
         THEN /\ res_all' = summarize_many(code_root, summarizer)
              /\ cpc' = "summarized"
         ELSE /\ res_all' = res_all
              /\ cpc' = "raised"
    /\ UNCHANGED <<code_root, summarizer, artifacts, code_items, project, uploads>>
    /\ UNCHANGED <<matchVars, precheckVars, runVars, evalVars>>
    /\ UNCHANGED <<storeVars, traceVars, scoreVars, monoVars>>

\* analyze_project step 4, lines 257-349: the code items and their rows
BuildCodeItems ==
    /\ cpc = "summarized"
    /\ code_items' = SlowPathItems(code_root, res_all)
    /\ artifacts' = IF project # "None" /\ code_root # <<>>
                    THEN UpdateOrCreate(artifacts, AnalyzeRows(code_root, code_items'))
                    ELSE artifacts
    /\ cpc' = "items"
    /\ UNCHANGED <<code_root, summarizer, res_all, project, uploads>>
    /\ UNCHANGED <<matchVars, precheckVars, runVars, evalVars>>
    /\ UNCHANGED <<storeVars, traceVars, scoreVars, monoVars>>

\* analyze_project step 5: embed_pipeline on the tasks and the code items
CodeEmbed ==
    /\ cpc = "items"
    /\ task_embeddings' = EmbeddedTasks(extract_bpmn_graph(OrderDoc).tasks)
    /\ code_embeddings' = EmbeddedItems(code_items)
    /\ pc' = "embedded"
    /\ cpc' = "embedded"
    /\ UNCHANGED <<entry, similarity, threshold, matching, top_k>>
    /\ UNCHANGED <<code_root, summarizer, artifacts, res_all, code_items, project, uploads>>
    /\ UNCHANGED <<precheckVars, runVars, evalVars>>
    /\ UNCHANGED <<storeVars, traceVars, scoreVars, monoVars>>

\* step 6 follows with the actions of the analysis run; the ranking of step 8
\* reads the same similarity and is checked in Spec
CodeNext ==
    \/ UploadCode
    \/ LoadArtifacts
    \/ SummarizeMany
    \/ BuildCodeItems
    \/ CodeEmbed
    \/ ComputeSimilarity
    \/ GreedyMatch

CodeSpec == CodeInit /\ [][CodeNext]_vars

-----------------------------------------------------------------------------
(* Properties of the summaries and of the code items *)

\* C21: a failure of the summarization (the service raises, returns empty
\* text or returns text that fails the format validation) never aborts
\* analyze_project, which goes on to embedding and matching, and every code
\* item it emits has a non-empty summary_text.
C21_SummaryFailureTolerated ==
    /\ cpc # "raised"
    /\ \A x \in DOMAIN code_items : code_items[x].summary_text # <<>>

\* the summary a function gets when it is summarized in a batch of its own
AloneSummary(sf) ==
    SlowPathItems(<<sf>>, summarize_many(<<sf>>, summarizer))[1].summary_text

\* C22: the summary analyze_project assigns to a function of a batch depends
\* only on that function's record and its own model output: a failed or
\* invalid output of one function changes no other function's summary, so
\* every function gets the summary it gets in a batch of its own.
C22_PerRecordSummaries ==
    cpc \in {"items", "embedded"} /\ res_all # NoResult =>
        \A x \in DOMAIN code_items :
            code_items[x].summary_text = AloneSummary(FunctionOf(code_items[x].id))

\* the functions of the current snapshot
SnapshotUids == { code_root[x].function_uid : x \in DOMAIN code_root }

\* C24: the code items analyze_project matches against are exactly the
\* functions of the current code snapshot; no function of an earlier
\* snapshot is among the code items, the matched pairs or the extra list.
C24_CurrentSnapshotOnly ==
    /\ cpc \in {"items", "embedded"} =>
          { code_items[x].id : x \in DOMAIN code_items } = SnapshotUids
    /\ matching # NoResult /\ matching.status # "raised" =>
          /\ \A x \in DOMAIN matching.matched : matching.matched[x].code_id \in SnapshotUids
          /\ \A x \in DOMAIN matching.extra : matching.extra[x] \in SnapshotUids

-----------------------------------------------------------------------------
(* run_analysis_for_project called up to twice on one project, one action per *)
(* database statement: the AnalysisRun row of each call and the BpmnTask and  *)
(* MatchResult rows of the project.  No statement of the function runs in a   *)
(* transaction except the creation of the run row.                            *)

MaxStoreTasks == 2

RunIds == {"r1", "r2"}

IdleRun ==
    [pc |-> "idle", status |-> "none", tasks |-> <<>>, results |-> <<>>,
     before |-> NoResult]

\* the rows an earlier run of the project has left
PriorTaskRows == <<[task_id |-> "old", name |-> "Old Task"]>>

PriorMatchRows ==
    <<[status |-> "MATCHED", task |-> "old", code_ref |-> CodeIdOf(1),
       similarity_score |-> 1]>>

\* the active BPMN of the project: bytes that do not parse, or up to
\* MaxStoreTasks task elements (the function reads nothing else of it)
IsTaskDoc(d) ==
    \/ d = [wellformed |-> FALSE, elems |-> <<>>]
    \/ \E n \in 0..MaxStoreTasks :
         \E ns \in [1..n -> { el \in NodePool : el.tag \in TASK_TAGS }] :
            d = [wellformed |-> TRUE, elems |-> ns]

\* "float(getattr(project, "similarity_threshold", 0.6) or 0.6)"
ProjectThreshold(t) == IF t = 0 THEN 1 ELSE t

\* analyze_project on the document and the embedded code of the project
AnalysisOf(d, code, thr) ==
    LET sim == compute_similarity(EmbeddedTasks(extract_bpmn_graph(d).tasks), code)
    IN IF sim.status = "raised" THEN Raised
       ELSE greedy_one_to_one_match(sim, thr)

StoreInit ==
    /\ IsTaskDoc(doc)
    /\ gate = "idle"
    /\ evaluated = <<>>
    /\ graph = NoResult
    /\ warnings = <<>>
    /\ reachable = {}
    /\ result = NoResult
    /\ entry = "store"
    /\ pc = "idle"
    /\ task_embeddings = <<>>
    /\ \E m \in 0..MaxRunCode : code_embeddings = EmbeddedCode(m)
    /\ similarity = NoResult
    /\ threshold \in Thresholds
    /\ matching = NoResult
    /\ top_k = NoResult
    /\ stage = "idle"
    /\ run_status = "none"
    /\ \/ bpmn_rows = <<>> /\ match_rows = <<>>
       \/ bpmn_rows = PriorTaskRows /\ match_rows = PriorMatchRows
    /\ runs = [r \in RunIds |-> IdleRun]
    /\ EvalIdle
    /\ CodeIdle
    /\ TraceIdle
    /\ ScoreIdle
    /\ MonoIdle

\* AnalysisRun.objects.create(project=project, status="PENDING")
CreateRun(r) ==
    /\ runs[r].pc = "idle"
    /\ runs' = [runs EXCEPT ![r].pc = "pending", ![r].status = "PENDING",
                            ![r].before = [bpmn_rows |-> bpmn_rows,
                                           match_rows |-> match_rows]]
    /\ UNCHANGED <<bpmn_rows, match_rows>>

\* run.status = "RUNNING"; run.save(...)
StartRun(r) ==
    /\ runs[r].pc = "pending"
    /\ runs' = [runs EXCEPT ![r].pc = "running", ![r].status = "RUNNING"]
    /\ UNCHANGED <<bpmn_rows, match_rows>>

\* steps 1 and 2 and the delete of replace_bpmn_tasks
DeleteTasks(r) ==
    /\ runs[r].pc = "running"
    /\ LET parsed == extract_tasks(doc)
       IN IF parsed.status = "raised"
          THEN /\ runs' = [runs EXCEPT ![r].pc = "raised"]
               /\ UNCHANGED <<bpmn_rows, match_rows>>
          ELSE /\ runs' = [runs EXCEPT ![r].pc = "tasks_deleted",
                                       ![r].tasks = TaskRows(parsed.tasks)]
               /\ bpmn_rows' = <<>>
               /\ match_rows' = SetNull(match_rows)

\* the bulk_create of replace_bpmn_tasks ("if objs:")
CreateTasks(r) ==
    /\ runs[r].pc = "tasks_deleted"
    /\ LET stored == bulk_create_tasks(bpmn_rows, runs[r].tasks)
       IN IF runs[r].tasks # <<>> /\ stored.status = "raised"
          THEN /\ runs' = [runs EXCEPT ![r].pc = "raised"]
               /\ UNCHANGED bpmn_rows
          ELSE /\ runs' = [runs EXCEPT ![r].pc = "tasks_stored"]
               /\ bpmn_rows' = IF runs[r].tasks # <<>> THEN stored.rows ELSE bpmn_rows
    /\ UNCHANGED match_rows

\* steps 3 to 5: analyze_project, which also raises when the code side fails
\* (a source file that does not parse, a model that does not load)
Analyze(r) ==
    /\ runs[r].pc = "tasks_stored"
    /\ \E code_ok \in BOOLEAN :
         LET m == AnalysisOf(doc, code_embeddings, ProjectThreshold(threshold))
         IN IF ~code_ok \/ m.status = "raised"
            THEN runs' = [runs EXCEPT ![r].pc = "raised"]
            ELSE runs' = [runs EXCEPT ![r].pc = "analysed",
                                      ![r].results = ResultRows(m)]
    /\ UNCHANGED <<bpmn_rows, match_rows>>

\* the delete of replace_match_results
DeleteResults(r) ==
    /\ runs[r].pc = "analysed"
    /\ match_rows' = <<>>
    /\ runs' = [runs EXCEPT ![r].pc = "results_deleted"]
    /\ UNCHANGED bpmn_rows

\* the task lookup and the bulk_create of replace_match_results
CreateResults(r) ==
    /\ runs[r].pc = "results_deleted"
    /\ match_rows' = match_rows \o MatchResultRows(runs[r].results, bpmn_rows)
    /\ runs' = [runs EXCEPT ![r].pc = "results_stored"]
    /\ UNCHANGED bpmn_rows

\* the exception leaves the function without a change of the run row
MarkFailedPropagates(r) ==
    /\ runs[r].pc = "raised"
    /\ runs' = [runs EXCEPT ![r].pc = "returned"]
    /\ UNCHANGED <<bpmn_rows, match_rows>>

\* step 6: run.status = "DONE"
MarkDone(r) ==
    /\ runs[r].pc = "results_stored"
    /\ runs' = [runs EXCEPT ![r].pc = "returned", ![r].status = "DONE"]
    /\ UNCHANGED <<bpmn_rows, match_rows>>

\* "except Exception": run.status = "FAILED"
MarkFailed(r) ==
    /\ runs[r].pc = "raised"
    /\ runs' = [runs EXCEPT ![r].pc = "returned", ![r].status = "FAILED"]
    /\ UNCHANGED <<bpmn_rows, match_rows>>

StoreStep(r) ==
    \/ CreateRun(r)
    \/ StartRun(r)
    \/ DeleteTasks(r)
    \/ CreateTasks(r)
    \/ Analyze(r)
    \/ DeleteResults(r)
    \/ CreateResults(r)
    \/ MarkDone(r)
    \/ MarkFailed(r)

StoreNext ==
    /\ \E r \in RunIds : StoreStep(r)
    /\ UNCHANGED <<stage, run_status>>
    /\ UNCHANGED <<matchVars, precheckVars, evalVars>>
    /\ UNCHANGED <<codeVars, traceVars, scoreVars, monoVars>>

StoreSpec == StoreInit /\ [][StoreNext]_vars

-----------------------------------------------------------------------------
(* Properties of the stored rows and of the run row *)

\* run r is the only call of run_analysis_for_project so far
Alone(r) == \A q \in RunIds \ {r} : runs[q].pc = "idle"

\* the MatchResult rows of run r alone: one row per matched pair, missing
\* task and extra code item, each task row among the run's BpmnTask rows
CompleteRows(r) == MatchResultRows(runs[r].results, runs[r].tasks)

\* C23: persistence of a run is all-or-nothing: a call that ends FAILED
\* leaves the BpmnTask and MatchResult rows of the project as they were
\* before the call, a call that ends DONE leaves exactly the rows derived
\* from that run.
C23_AllOrNothing ==
    \A r \in RunIds :
        Alone(r) /\ runs[r].pc = "returned" =>
            IF runs[r].status = "FAILED"
            THEN /\ bpmn_rows = runs[r].before.bpmn_rows
                 /\ match_rows = runs[r].before.match_rows
            ELSE /\ bpmn_rows = runs[r].tasks
                 /\ match_rows = CompleteRows(r)

\* C27: two concurrent calls on one project, under any interleaving of
\* their delete and bulk-create steps, leave the MatchResult rows equal to
\* the complete result of exactly one of the two runs: no duplicated rows,
\* no mix of both runs, no empty set while a run reports DONE.
C27_RowsOfOneRun ==
    (\A r \in RunIds : runs[r].pc = "returned" /\ runs[r].status = "DONE") =>
        \E r \in RunIds : match_rows = CompleteRows(r)

\* the status changes of the lifecycle
LifecycleStep(from, to) ==
    \/ from = to
    \/ from = "none" /\ to = "PENDING"
    \/ from = "PENDING" /\ to = "RUNNING"
    \/ from = "RUNNING" /\ to \in {"DONE", "FAILED"}

\* C28: every run created by run_analysis_for_project moves PENDING ->
\* RUNNING -> exactly one of DONE or FAILED; the function never returns a
\* run still PENDING or RUNNING, an exception raised after the run was
\* created yields FAILED, and DONE is set only after the MatchResult rows of
\* that run have been stored.
C28_Lifecycle ==
    [][\A r \in RunIds :
          /\ LifecycleStep(runs[r].status, runs'[r].status)
          /\ runs'[r].pc = "returned" => runs'[r].status \in {"DONE", "FAILED"}
          /\ runs[r].pc = "raised" /\ runs'[r].pc # "raised" =>
                runs'[r].status = "FAILED"
          /\ runs[r].status # "DONE" /\ runs'[r].status = "DONE" =>
                runs[r].pc = "results_stored"]_vars

\* one run has ended FAILED after an exception and the other has ended DONE
\* with rows stored
C28_Witness ==
    /\ runs["r1"].pc = "returned" /\ runs["r1"].status = "FAILED"
    /\ runs["r2"].pc = "returned" /\ runs["r2"].status = "DONE"
    /\ match_rows # <<>>

----------------------------------------------------------------------------
\* Code Structural Extractor: the trace lists of one function
\* (analysis/code/structured_extractor.py).  TraceSpec walks the nodes of one
\* function body with _Visitor and builds the record with _build_one.

MaxNames == 14

\* the literals of the slices in _build_one
CallsCap == 12

WritesCap == 12

ReturnsCap == 8

ExceptionsCap == 8

\* a dotted name of the source; <<>> stands for None (_attr_chain found no
\* name: the chain does not start at a Name)
Name(v) == IF v = 0 THEN <<>> ELSE <<"n", v>>

Ascending(n) == [x \in 1..n |-> x]

Descending(n) == [x \in 1..n |-> n + 1 - x]

InsertAt(s, p, v) == SubSeq(s, 1, p) \o <<v>> \o SubSeq(s, p + 1, Len(s))

\* the names a body mentions, in order: n distinct names, alone or with one
\* more node after position p that repeats the first name, repeats the name
\* at p, or has no name (0)
NameSeqs ==
    UNION {{base} \cup UNION {{InsertAt(base, p, v) : v \in {0, base[1], base[p]}} :
                                 p \in 1..Len(base)} :
           base \in {Ascending(n) : n \in 0..MaxNames}
                    \cup {Descending(n) : n \in 0..MaxNames}}

BodyShapes == {"Call", "Assign", "Return", "RaiseCall", "RaiseName", "Mixed"}

MixedTypes == <<"Call", "Assign", "AnnAssign", "Return", "RaiseName">>

CallNode(v) == [type |-> "Call", func |-> Name(v)]

\* the ast node at position x of a body of the given shape that mentions v
NodeOf(shape, x, v) ==
    LET kind == IF shape = "Mixed" THEN MixedTypes[(x % 5) + 1]
                ELSE IF shape = "Assign" /\ x % 2 = 0 THEN "AnnAssign"
                ELSE shape
    IN  CASE kind = "Call" -> CallNode(v)
          [] kind = "Assign" -> [type |-> "Assign", targets |-> <<Name(v)>>]
          [] kind = "AnnAssign" -> [type |-> "AnnAssign", target |-> Name(v)]
          [] kind = "Return" ->
                [type |-> "Return",
                 value |-> IF v = 0 THEN [kind |-> "None"]
                           ELSE IF v = 1 THEN [kind |-> "Name"]
                           ELSE [kind |-> "Constant", value |-> v]]
          [] kind = "RaiseCall" ->
                [type |-> "Raise", exc |-> [kind |-> "Call", call |-> CallNode(v)]]
          [] OTHER ->
                [type |-> "Raise",
                 exc |-> IF v = 0 THEN [kind |-> "None"]
                         ELSE [kind |-> "Name", id |-> Name(v)]]

BodyOf(shape, names) == [x \in DOMAIN names |-> NodeOf(shape, x, names[x])]

\* _Visitor.__init__, with the nodes still to visit
NewVisitor(body) ==
    [body |-> body, pos |-> 0, calls |-> <<>>, writes |-> <<>>,
     returns |-> <<>>, exceptions |-> <<>>]

\* "if name: xs.append(name)"
AppendName(xs, name) == IF name = <<>> THEN xs ELSE Append(xs, name)

RECURSIVE FromKeysLoop(_, _, _)
FromKeysLoop(s, x, acc) ==
    IF x > Len(s) THEN acc
    ELSE FromKeysLoop(s, x + 1,
                      IF s[x] \in Range(acc) THEN acc ELSE Append(acc, s[x]))

\* list(dict.fromkeys(s))
FromKeys(s) == FromKeysLoop(s, 1, <<>>)

\* s[:n]
Slice(s, n) == SubSeq(s, 1, Min(n, Len(s)))

\* the slice taken before the names are de-duplicated
SliceThenFromKeys(s, cap) == FromKeys(Slice(s, cap))

\* list(dict.fromkeys(s))[:cap]
TraceList(s, cap) == Slice(FromKeys(s), cap)

TraceInit ==
    /\ \E shape \in BodyShapes : \E names \in NameSeqs :
           visitor = NewVisitor(BodyOf(shape, names))
    /\ built = NoResult
    /\ MatchIdle
    /\ PrecheckIdle
    /\ RunIdle
    /\ EvalIdle
    /\ CodeIdle
    /\ StoreIdle
    /\ ScoreIdle
    /\ MonoIdle

NextNode == visitor.body[visitor.pos + 1]

Visiting(type) ==
    /\ built = NoResult
    /\ visitor.pos < Len(visitor.body)
    /\ NextNode.type = type

VisitCall ==
    /\ Visiting("Call")
    /\ visitor' = [visitor EXCEPT !.pos = @ + 1,
                                  !.calls = AppendName(@, NextNode.func)]
    /\ UNCHANGED built

VisitAssign ==
    /\ Visiting("Assign")
    /\ visitor' = [visitor EXCEPT !.pos = @ + 1,
                                  !.writes = AppendName(@, NextNode.targets[1])]
    /\ UNCHANGED built

VisitAnnAssign ==
    /\ Visiting("AnnAssign")
    /\ visitor' = [visitor EXCEPT !.pos = @ + 1,
                                  !.writes = AppendName(@, NextNode.target)]
    /\ UNCHANGED built

VisitReturn ==
    /\ Visiting("Return")
    /\ visitor' = [visitor EXCEPT
                     !.pos = @ + 1,
                     !.returns =
                        Append(@, CASE NextNode.value.kind = "None" -> <<"None">>
                                    [] NextNode.value.kind = "Constant" ->
                                          <<"str", NextNode.value.value>>
                                    [] OTHER -> <<"expr">>)]
    /\ UNCHANGED built

\* visit_Raise; generic_visit then reaches visit_Call for "raise X(...)"
VisitRaise ==
    /\ Visiting("Raise")
    /\ visitor' = [visitor EXCEPT
                     !.pos = @ + 1,
                     !.exceptions =
                        CASE NextNode.exc.kind = "Call" ->
                                AppendName(@, NextNode.exc.call.func)
                          [] NextNode.exc.kind = "Name" -> Append(@, NextNode.exc.id)
                          [] OTHER -> @,
                     !.calls =
                        IF NextNode.exc.kind = "Call"
                        THEN AppendName(@, NextNode.exc.call.func)
                        ELSE @]
    /\ UNCHANGED built

\* _build_one after v.visit(node)
BuildOne ==
    /\ built = NoResult
    /\ visitor.pos = Len(visitor.body)
    /\ built' = [calls |-> TraceList(visitor.calls, CallsCap),
                 writes |-> TraceList(visitor.writes, WritesCap),
                 returns |-> TraceList(visitor.returns, ReturnsCap),
                 exceptions |-> TraceList(visitor.exceptions, ExceptionsCap)]
    /\ UNCHANGED visitor

TraceNext ==
    /\ \/ VisitCall
       \/ VisitAssign
       \/ VisitAnnAssign
       \/ VisitReturn
       \/ VisitRaise
       \/ BuildOne
    /\ UNCHANGED <<matchVars, precheckVars, runVars, evalVars>>
    /\ UNCHANGED <<codeVars, storeVars, scoreVars, monoVars>>

TraceSpec == TraceInit /\ [][TraceNext]_vars

NoDuplicate(s) == \A x, y \in DOMAIN s : s[x] = s[y] => x = y

\* list is the first cap distinct names of raw, in order of first appearance
FirstDistinct(list, raw, cap) ==
    /\ NoDuplicate(list)
    /\ Len(list) = Min(cap, Cardinality(Range(raw)))
    /\ \A k \in DOMAIN list :
           \E x \in DOMAIN raw :
               /\ raw[x] = list[k]
               /\ \A y \in 1..(x - 1) : \E j \in 1..(k - 1) : list[j] = raw[y]

\* C25: for every extracted function, calls and writes each contain no
\* duplicate name, keep names in order of first appearance and have at most
\* 12 entries; returns and exceptions likewise have at most 8 entries; the
\* cap is applied after de-duplication, so the list is the first 12 (or 8)
\* distinct names.
C25_TraceLists ==
    built # NoResult =>
        /\ FirstDistinct(built.calls, visitor.calls, 12)
        /\ FirstDistinct(built.writes, visitor.writes, 12)
        /\ FirstDistinct(built.returns, visitor.returns, 8)
        /\ FirstDistinct(built.exceptions, visitor.exceptions, 8)
        /\ Len(built.calls) <= 12 /\ Len(built.writes) <= 12
        /\ Len(built.returns) <= 8 /\ Len(built.exceptions) <= 8

\* a function whose calls and exceptions both repeat a name among the first
\* names and mention more distinct names than the cap
C25_Witness ==
    /\ built # NoResult
    /\ Cardinality(Range(visitor.calls)) > 12
    /\ \E x, y \in 1..12 : x # y /\ visitor.calls[x] = visitor.calls[y]
    /\ Len(built.calls) = 12
    /\ Cardinality(Range(visitor.exceptions)) > 8
    /\ \E x, y \in 1..8 : x # y /\ visitor.exceptions[x] = visitor.exceptions[y]
    /\ Len(built.exceptions) = 8

----------------------------------------------------------------------------
\* Developer scoring (analysis/metrics/developer_scoring.py).  ScoreSpec
\* draws the matched and extra entries and the mapping of code ids to
\* developers, and applies score_developers.

MaxScored == 2

ScoredCodeIds == {"C1", "C2", "C3"}

\* developer ids in the order sorted() gives them
DeveloperIds == <<"dev_a", "dev_b", "unassigned">>

\* lists of entries {codeId: ...} with at most n entries
ScoredEntries(n) ==
    UNION {[1..k -> [codeId : ScoredCodeIds]] : k \in 0..n}

\* dicts {codeId: developerId} over some of the code ids
DeveloperMaps ==
    UNION {[ids -> Range(DeveloperIds)] : ids \in SUBSET ScoredCodeIds}

\* code_to_developer.get(code_id, "unassigned")
DeveloperOf(code_to_developer, code_id) ==
    IF code_id \in DOMAIN code_to_developer
    THEN code_to_developer[code_id]
    ELSE "unassigned"

\* by_dev.get(dev, 0)
GetCount(by_dev, dev) == IF dev \in DOMAIN by_dev THEN by_dev[dev] ELSE 0

\* by_dev[dev] = value
SetCount(by_dev, dev, value) ==
    [d \in DOMAIN by_dev \cup {dev} |-> IF d = dev THEN value ELSE by_dev[d]]

\* "for m in entries: dev = ...; by_dev[dev] = 1": the count is set, not added
RECURSIVE CountFlags(_, _, _, _)
CountFlags(entries, code_to_developer, x, by_dev) ==
    IF x > Len(entries) THEN by_dev
    ELSE CountFlags(entries, code_to_developer, x + 1,
                    SetCount(by_dev,
                             DeveloperOf(code_to_developer, entries[x].codeId), 1))

\* "for m in entries: dev = ...; by_dev[dev] = by_dev.get(dev, 0) + 1"
RECURSIVE CountByDeveloper(_, _, _, _)
CountByDeveloper(entries, code_to_developer, x, by_dev) ==
    IF x > Len(entries) THEN by_dev
    ELSE LET dev == DeveloperOf(code_to_developer, entries[x].codeId)
         IN  CountByDeveloper(entries, code_to_developer, x + 1,
                              SetCount(by_dev, dev, GetCount(by_dev, dev) + 1))

\* sum(by_dev.values())
RECURSIVE SumValues(_, _)
SumValues(by_dev, devs) ==
    IF devs = {} THEN 0
    ELSE LET d == CHOOSE d \in devs : TRUE
         IN  by_dev[d] + SumValues(by_dev, devs \ {d})

\* sorted(dev_ids)
SortedDevelopers(dev_ids) ==
    LET keep == {x \in DOMAIN DeveloperIds : DeveloperIds[x] \in dev_ids}
        Rank(x) == Cardinality({y \in keep : y <= x})
    IN  [k \in 1..Cardinality(keep) |->
            DeveloperIds[CHOOSE x \in keep : Rank(x) = k]]

\* score is kept as the fraction num / den of the float
score_developers(matched, extra, code_to_developer) ==
    LET matched_by_dev == CountByDeveloper(matched, code_to_developer, 1, <<>>)
        extra_by_dev == CountByDeveloper(extra, code_to_developer, 1, <<>>)
        dev_ids == DOMAIN matched_by_dev \cup DOMAIN extra_by_dev
        total_matched == SumValues(matched_by_dev, DOMAIN matched_by_dev)
        devs == SortedDevelopers(dev_ids)
    IN  [developers |->
            [k \in DOMAIN devs |->
                LET mc == GetCount(matched_by_dev, devs[k])
                    ec == GetCount(extra_by_dev, devs[k])
                IN  [developerId |-> devs[k],
                     matched_count |-> mc,
                     extra_count |-> ec,
                     score_raw |-> mc - ec,
                     score |-> [num |-> Max(0, mc - ec) * 100,
                                den |-> Max(1, total_matched)]]],
         totals |-> [total_matched |-> total_matched,
                     total_extra |-> SumValues(extra_by_dev, DOMAIN extra_by_dev)]]

ScoreInit ==
    /\ \E matched \in ScoredEntries(MaxScored) :
       \E extra \in ScoredEntries(MaxScored) :
       \E code_to_developer \in DeveloperMaps :
           score_args = [matched |-> matched, extra |-> extra,
                         code_to_developer |-> code_to_developer]
    /\ scores = NoResult
    /\ MatchIdle
    /\ PrecheckIdle
    /\ RunIdle
    /\ EvalIdle
    /\ CodeIdle
    /\ StoreIdle
    /\ TraceIdle
    /\ MonoIdle

ScoreDevelopers ==
    /\ scores = NoResult
    /\ scores' = score_developers(score_args.matched, score_args.extra,
                                  score_args.code_to_developer)
    /\ UNCHANGED score_args

ScoreNext ==
    /\ ScoreDevelopers
    /\ UNCHANGED <<matchVars, precheckVars, runVars, evalVars>>
    /\ UNCHANGED <<codeVars, storeVars, traceVars, monoVars>>

ScoreSpec == ScoreInit /\ [][ScoreNext]_vars

\* the entries of a list whose codeId maps to dev, ids absent from the
\* mapping taken as "unassigned"
EntriesOf(entries, dev) ==
    {x \in DOMAIN entries :
        \/ /\ entries[x].codeId \in DOMAIN score_args.code_to_developer
           /\ score_args.code_to_developer[entries[x].codeId] = dev
        \/ /\ entries[x].codeId \notin DOMAIN score_args.code_to_developer
           /\ dev = "unassigned"}

\* C26: for every developer in the output, matched_count equals the number
\* of matched entries whose codeId maps to that developer and extra_count
\* the number of extra entries whose codeId maps to that developer, with
\* code ids absent from the mapping counted under "unassigned";
\* totals.total_matched = len(matched) and totals.total_extra = len(extra).
C26_DeveloperCounts ==
    scores # NoResult =>
        /\ \A k \in DOMAIN scores.developers :
               LET d == scores.developers[k]
               IN  /\ d.matched_count =
                          Cardinality(EntriesOf(score_args.matched, d.developerId))
                   /\ d.extra_count =
                          Cardinality(EntriesOf(score_args.extra, d.developerId))
        /\ scores.totals.total_matched = Len(score_args.matched)
        /\ scores.totals.total_extra = Len(score_args.extra)

\* one developer has two matched entries, and a code id absent from the
\* mapping is counted under "unassigned"
C26_Witness ==
    /\ scores # NoResult
    /\ \E k \in DOMAIN scores.developers :
           /\ scores.developers[k].developerId # "unassigned"
           /\ scores.developers[k].matched_count = 2
    /\ \E k \in DOMAIN scores.developers :
           /\ scores.developers[k].developerId = "unassigned"
           /\ scores.developers[k].extra_count >= 1
           /\ \E x \in DOMAIN score_args.extra :
                  score_args.extra[x].codeId \notin DOMAIN score_args.code_to_developer

----------------------------------------------------------------------------
\* greedy_one_to_one_match on one similarity matrix at two thresholds
\* (analysis/semantic/matcher.py).  MonoSpec draws the matrix and the
\* thresholds threshold <= threshold_hi and calls the matcher with each.

MonoInit ==
    /\ entry = "thresholds"
    /\ pc = "similarity"
    /\ task_embeddings = <<>>
    /\ code_embeddings = <<>>
    /\ IsWellShaped(similarity) \/ IsOddShaped(similarity)
    /\ threshold \in Thresholds
    /\ threshold_hi \in {t \in Thresholds : threshold <= t}
    /\ matching = NoResult
    /\ matching_hi = NoResult
    /\ top_k = NoResult
    /\ PrecheckIdle
    /\ RunIdle
    /\ EvalIdle
    /\ CodeIdle
    /\ StoreIdle
    /\ TraceIdle
    /\ ScoreIdle

\* greedy_one_to_one_match(similarity, threshold_hi)
GreedyMatchHi ==
    /\ entry = "thresholds"
    /\ matching_hi = NoResult
    /\ matching_hi' = greedy_one_to_one_match(similarity, threshold_hi)
    /\ UNCHANGED threshold_hi
    /\ UNCHANGED <<matchVars, precheckVars, runVars, evalVars>>
    /\ UNCHANGED <<codeVars, storeVars, traceVars, scoreVars>>

MonoNext ==
    \/ GreedyMatch
    \/ GreedyMatchHi

MonoSpec == MonoInit /\ [][MonoNext]_vars

BothMatched == matching.status = "ok" /\ matching_hi.status = "ok"

\* C29: for one similarity matrix and thresholds t1 <= t2, the matched list
\* returned at t2 is a prefix of the matched list returned at t1, so raising
\* the threshold never adds a match, never changes the partner of a pair that
\* stays matched, and the missing and extra sets only grow.
C29_ThresholdMonotone ==
    BothMatched =>
        /\ Len(matching_hi.matched) <= Len(matching.matched)
        /\ \A x \in DOMAIN matching_hi.matched :
               matching_hi.matched[x] = matching.matched[x]
        /\ Range(matching.missing) \subseteq Range(matching_hi.missing)
        /\ Range(matching.extra) \subseteq Range(matching_hi.extra)

\* the higher threshold keeps some of the matches of the lower one and loses
\* others
C29_Witness ==
    /\ BothMatched
    /\ threshold < threshold_hi
    /\ matching_hi.matched # <<>>
    /\ Len(matching_hi.matched) < Len(matching.matched)
    /\ matching_hi.missing # <<>> /\ matching_hi.extra # <<>>
====
